---- MODULE Spec2Model ----
(***************************************************************************)
(* Order execution and risk management of the market-making bot:           *)
(*   src/src/execution/order_executor.py   (OrderExecutor)                 *)
(*   src/src/risk_management/risk_manager.py (RiskManager)                 *)
(*   src/src/strategies/market_making_strategy.py (MarketMakingStrategy)   *)
(*   src/src/strategies/statistical_arbitrage_strategy.py                  *)
(*                                        (StatisticalArbitrageStrategy)   *)
(* The venue (ExchangeClient) is the environment: each request to it either *)
(* raises or answers from the venue's own order book.                      *)
(*                                                                         *)
(* Money is counted in thousandths of a currency unit, so that the 0.001   *)
(* fee of update_position is exact in integers.                            *)
(***************************************************************************)
EXTENDS Integers, Sequences, FiniteSets, TLC

(* ------------------------------ bounds -------------------------------- *)
MaxOrders == 2          \* orders the venues accept in one behaviour
MaxAmount == 2          \* the largest amount of an order
MaxAttempts == 5        \* create/cancel attempts followed inside one call
MaxUpdates == 3         \* direct update_position calls followed in SpecRisk
MaxParameterUpdates == 2  \* update_parameters calls followed in SpecStrategy

(* --------------------------- configuration ---------------------------- *)
retry_attempts == 3
max_position_size == 2
max_drawdown_percent == 5
initial_capital == 100
FeeDenominator == 1000      \* fee_rate = 0.001 = 1/FeeDenominator
LimitPrice == 10            \* the one valid price callers quote
NoPrice == 0 - 1            \* price None (no real price is negative here)
NoExchange == "None"        \* exchange_id None
NoSymbol == "None"         \* symbol None

exchanges == <<"binance", "kraken">>    \* self.exchanges, in dict order
Venues == {exchanges[i] : i \in 1..Len(exchanges)}
Symbols == {"BTC/USDT", "ETH/USDT"}
Sides == {"buy", "sell"}
OrderTypes == {"limit", "market", "stop"}
Prices == {NoPrice, LimitPrice}
ExchangeIds == Venues \cup {NoExchange}

\* what load_markets() of each venue lists
markets == [v \in Venues |-> IF v = "binance" THEN {"BTC/USDT"} ELSE Symbols]

\* statuses the executor treats as finished, and as filled
Terminal == {"filled", "canceled", "closed"}
FilledStatuses == {"filled", "closed"}

Abs(x) == IF x < 0 THEN 0 - x ELSE x

(* ------------------------------ sequences ------------------------------ *)
RECURSIVE SeqFilter(_, _)
SeqFilter(s, keep) ==
    IF s = <<>> THEN <<>>
    ELSE IF Head(s) \in keep THEN <<Head(s)>> \o SeqFilter(Tail(s), keep)
         ELSE SeqFilter(Tail(s), keep)

SeqRange(s) == {s[i] : i \in 1..Len(s)}

(* ---------------------------- RiskManager ------------------------------ *)
\* self.positions.get(symbol, 0)
PositionOf(rm, symbol) == rm.positions[symbol]

\* the position is set to the signed amount of the fill
OverwritesPosition(current_position, side, amount) ==
    IF side = "buy" THEN amount ELSE 0 - amount

\* new_position of check_position_limit and of update_position
NewPosition(current_position, side, amount) ==
    IF side = "buy" THEN current_position + amount ELSE current_position - amount

\* the limit compared without abs(): short positions are never over it
SignedPositionLimit(rm, symbol, side, amount) ==
    ~(NewPosition(PositionOf(rm, symbol), side, amount) > max_position_size)

check_position_limit(rm, symbol, side, amount) ==
    ~(Abs(NewPosition(PositionOf(rm, symbol), side, amount)) > max_position_size)

\* drawdown_percent = (1 - current_capital / peak_capital) * 100, times
\* peak_capital to clear it of the division
DrawdownTimesPeak(rm) == (rm.peak_capital - rm.current_capital) * 100

\* drawdown_percent > self.max_drawdown_percent
DrawdownExceeds(rm) == DrawdownTimesPeak(rm) > max_drawdown_percent * rm.peak_capital

check_drawdown_limit(rm) ==
    IF rm.current_capital <= 0 \/ rm.peak_capital <= 0 THEN FALSE
    ELSE ~DrawdownExceeds(rm)

NewCapital(current_capital, amount, price, side) ==
    LET trade_value == amount * price * FeeDenominator
        fees == amount * price
    IN IF side = "buy" THEN current_capital - (trade_value + fees)
       ELSE current_capital + (trade_value - fees)

PeakFollowsCapital(current_capital, peak_capital) == current_capital

NewPeak(current_capital, peak_capital) ==
    IF current_capital > peak_capital THEN current_capital ELSE peak_capital

\* update_position raises TypeError at amount * price when price is None,
\* after the position has been written
UpdatePositionRaises(price) == price = NoPrice

update_position(rm, symbol, amount, price, side) ==
    LET pos == [rm.positions EXCEPT ![symbol] = NewPosition(@, side, amount)]
    IN IF UpdatePositionRaises(price)
       THEN [rm EXCEPT !.positions = pos]
       ELSE LET cap == NewCapital(rm.current_capital, amount, price, side)
            IN [positions |-> pos,
                current_capital |-> cap,
                peak_capital |-> NewPeak(cap, rm.peak_capital)]

(* ------------------------------- state --------------------------------- *)
VARIABLES
    active_orders,    \* OrderExecutor.active_orders: exchange_id -> symbol -> list of order ids
    order_info,       \* the order_info objects, by order id (shared by table and history)
    order_history,    \* OrderExecutor.order_history: the same objects, in order of placement
    execution_stats,  \* OrderExecutor.execution_stats
    risk_manager,     \* RiskManager: positions, current_capital, peak_capital
    venue_orders,     \* the venues' own books: what each order really is
    call,             \* the caller thread: idle, or inside a place_order or cancel_order call waiting to retry
    last_call,        \* the operation that ran last and what it returned
    fills_applied,    \* per order: how often update_position was called for it
    direct_updates,   \* update_position calls made directly on the RiskManager
    threads,          \* where each thread stands in the OrderExecutor method it runs
    order_lock,       \* OrderExecutor.order_lock, a threading.RLock: owner and depth
    engine,           \* MarketMakingEngine: running, its main loop and its stop() call
    execution_loop,   \* OrderExecutor.running, _execution_loop and the stop() call
    strategy,         \* MarketMakingStrategy: its parameters, a cycle and an update_parameters call
    risk_calls,       \* the update_position calls two threads make on the RiskManager, statement by statement
    risk_metrics,     \* RiskManager.drawdown_history and risk_metrics["max_drawdown"]
    pure_call,        \* a call of a function without side effects: its name, arguments and result
    arbitrage,        \* StatisticalArbitrageStrategy: active_positions and the update() in progress
    market_maker,     \* MarketMakingStrategy: working set, position and the cycle in progress
    adaptive          \* AdaptiveMarketMakingStrategy: adapted parameters, conditions, refresh times

executor_vars == <<active_orders, order_info, order_history, execution_stats,
                   risk_manager, venue_orders, call, last_call, fills_applied,
                   direct_updates>>

lock_vars == <<threads, order_lock>>

engine_vars == <<engine, execution_loop, strategy>>

component_vars == <<risk_calls, risk_metrics, pure_call, arbitrage, market_maker, adaptive>>

\* what a call of an OrderExecutor method, taken as a whole, leaves alone
other_vars == <<lock_vars, engine_vars, component_vars>>

vars == <<executor_vars, lock_vars, engine_vars, component_vars>>

NoArgs == [symbol |-> NoSymbol, side |-> "buy", order_type |-> "limit", amount |-> 0,
           price |-> NoPrice, exchange_id |-> NoExchange, order_id |-> 0]

Idle == [pc |-> "idle", args |-> NoArgs, attempts |-> 0, create_failures |-> 0]

\* the threads that call the executor: the strategy cycle, another caller such
\* as the engine, and the executor's own execution_thread
Threads == {"strategy", "caller", "execution_thread"}

NotCalling == [op |-> "none", at |-> "idle"]

Unlocked == [owner |-> "none", count |-> 0]

\* MarketMakingEngine after start(): running, the main thread about to test
\* self.running, no stop() call yet; orders_at_stop is the number of orders the
\* venues had been sent when stop() made its cancel_all_orders call
EngineStarted == [running |-> TRUE, main_thread |-> "check", stop |-> "idle",
                  orders_at_stop |-> 0]

\* OrderExecutor after __init__: running, the execution thread about to test
\* self.running; passes counts the update_orders passes started after stop()
\* cleared the flag
LoopStarted == [running |-> TRUE, at |-> "check", stop |-> "idle", passes |-> 0]

\* the parameters a market-making cycle reads, in the order update_parameters
\* writes them
Parameters == <<"spread_bid", "spread_ask", "order_size", "order_count",
                "refresh_rate", "max_position">>

ParameterSet(version) == [f \in SeqRange(Parameters) |-> version]

NotRead == 0 - 1

\* MarketMakingStrategy after __init__: the configured parameters (version 0),
\* no update_parameters call and no cycle in progress
StrategyBuilt ==
    [parameters |-> ParameterSet(0),
     sets       |-> <<ParameterSet(0)>>,
     update     |-> [at |-> 0, new |-> ParameterSet(0)],
     cycle      |-> [at |-> 0, seen |-> ParameterSet(NotRead)]]

\* the threads that call update_position on the RiskManager directly
RiskCallers == {"strategy", "caller"}

NoUpdateArgs == [symbol |-> NoSymbol, amount |-> 0, price |-> NoPrice, side |-> "buy"]

\* no update_position call in progress: nothing read into locals yet
NoRiskCall == [at |-> "idle", args |-> NoUpdateArgs, current_position |-> 0,
               current_capital |-> 0]

NoRiskCalls == [t \in RiskCallers |-> NoRiskCall]

\* RiskManager.__init__: drawdown_history = [] and risk_metrics["max_drawdown"] = 0;
\* a drawdown is kept as the fraction of the peak it is (drawdown_percent / 100)
NoDrawdownYet == [drawdown_history |-> <<>>, max_drawdown |-> [num |-> 0, den |-> 1],
                  checks |-> 0, last |-> <<"none", FALSE>>]

NoPureCall == [fn |-> "none"]

\* self.pair_models, in dict order: the pair ids of the configured pairs
pairs == <<"BTC/USDT_ETH/USDT", "BTC/USDT_LTC/USDT", "ETH/USDT_LTC/USDT">>
Pairs == {pairs[i] : i \in 1..Len(pairs)}

\* no ticker read in the step: nothing to compute a z-score from
NoReading == [pair |-> "none", available |-> FALSE, z_score |-> [num |-> 0, den |-> 1]]

\* StatisticalArbitrageStrategy after __init__ and initialize(): no active
\* position; exposures counts, per pair, the opening orders created and not yet
\* offset by closing orders; at is the place inside update()
ArbitrageBuilt ==
    [active_positions   |-> [pair \in {} |-> NoReading],
     exposures          |-> [pair \in Pairs |-> 0],
     at                 |-> [step |-> "idle", index |-> 0],
     positions_to_close |-> {},
     reading            |-> NoReading]

\* MarketMakingStrategy.symbols, the default of the configuration
symbols == <<"BTC/USDT">>

\* self.active_orders has no entry for the symbol
NoWorkingSet == [present |-> FALSE, buy |-> <<>>, sell |-> <<>>]

NoCycle == [symbol |-> NoSymbol, due |-> FALSE, manipulation |-> FALSE,
            available |-> FALSE, market |-> [num |-> 0, den |-> 1],
            cancels |-> {}, placed |-> {}]

\* MarketMakingStrategy after __init__: no working set, no position, max_position
\* as configured; cycle is the record of the last pass of execute() over a symbol
MarketMakerBuilt ==
    [active_orders |-> [s \in SeqRange(symbols) |-> NoWorkingSet],
     positions     |-> [s \in SeqRange(symbols) |-> 0],
     max_position  |-> 1,
     next_id       |-> 1,
     cycles        |-> 0,
     cycle         |-> NoCycle]

\* MarketMakingStrategy.refresh_rate as configured, in seconds
refresh_rate == 10

\* no entry of self.market_conditions for the symbol
NoConditions == [known |-> FALSE]

NoPass == [symbol |-> NoSymbol, due |-> FALSE, adapted |-> FALSE, base_due |-> FALSE]

\* AdaptiveMarketMakingStrategy after __init__: the parameters of the parent
\* class as configured (spreads 1 percent, order_size 1, order_count 2), no
\* market conditions, no symbol refreshed yet
AdaptiveBuilt ==
    [spread_bid        |-> [num |-> 1, den |-> 1],
     spread_ask        |-> [num |-> 1, den |-> 1],
     order_size        |-> [num |-> 1, den |-> 1],
     order_count       |-> 2,
     refresh_rate      |-> refresh_rate,
     last_refresh_time |-> [s \in SeqRange(symbols) |-> 0],
     market_conditions |-> [s \in SeqRange(symbols) |-> NoConditions],
     spread_multiplier |-> [num |-> 1, den |-> 1],
     size_multiplier   |-> [num |-> 1, den |-> 1],
     clock             |-> 0,
     passes            |-> 0,
     pass              |-> NoPass]

\* every object as its constructor leaves it
Constructed ==
    /\ active_orders = [e \in ExchangeIds |-> [s \in Symbols |-> <<>>]]
    /\ order_info = <<>>
    /\ order_history = <<>>
    /\ execution_stats = [orders_placed |-> 0, orders_filled |-> 0, orders_cancelled |-> 0,
                          orders_rejected |-> 0, total_volume |-> 0]
    /\ risk_manager = [positions |-> [s \in Symbols |-> 0],
                       current_capital |-> initial_capital * FeeDenominator,
                       peak_capital |-> initial_capital * FeeDenominator]
    /\ venue_orders = <<>>
    /\ call = Idle
    /\ last_call = [op |-> "init", result |-> "none"]
    /\ fills_applied = <<>>
    /\ direct_updates = 0
    /\ threads = [t \in Threads |-> NotCalling]
    /\ order_lock = Unlocked
    /\ engine = EngineStarted
    /\ execution_loop = LoopStarted
    /\ strategy = StrategyBuilt
    /\ risk_calls = NoRiskCalls
    /\ risk_metrics = NoDrawdownYet
    /\ arbitrage = ArbitrageBuilt
    /\ market_maker = MarketMakerBuilt
    /\ adaptive = AdaptiveBuilt

Init ==
    /\ Constructed
    /\ pure_call = NoPureCall

(* ------------------------------ the venue ------------------------------ *)
VenueStatus(amount, filled) ==
    IF filled = 0 THEN "new"
    ELSE IF filled < amount THEN "partially_filled" ELSE "filled"

VenueOpen(id) == venue_orders[id].status \in {"new", "partially_filled"}

\* the venue knows order id under this symbol
VenueHas(venue, symbol, id) ==
    /\ id \in 1..Len(venue_orders)
    /\ venue_orders[id].venue = venue
    /\ venue_orders[id].symbol = symbol

\* whether a venue's raw orders carry the "remaining" key: the unified format
\* does, the format of the repository's Binance connector does not
ReportsRemaining(venue) == venue # "binance"

\* a raw order as fetch_order returns it
FetchResponse(id) ==
    [status |-> venue_orders[id].status,
     filled |-> venue_orders[id].filled,
     has_remaining |-> ReportsRemaining(venue_orders[id].venue),
     remaining |-> venue_orders[id].amount - venue_orders[id].filled]

\* order.get("remaining", default)
GetRemaining(response, default) ==
    IF response.has_remaining THEN response.remaining ELSE default

\* exchange.cancel_all_orders(symbol) on each <<venue, symbol>> of done
VenueCancelAll(done) ==
    [id \in 1..Len(venue_orders) |->
        IF <<venue_orders[id].venue, venue_orders[id].symbol>> \in done /\ VenueOpen(id)
        THEN [venue_orders[id] EXCEPT !.status = "canceled"]
        ELSE venue_orders[id]]

\* the market fills part or all of an open order
VenueFill(id, quantity) ==
    /\ id \in 1..Len(venue_orders)
    /\ VenueOpen(id)
    /\ quantity \in 1..(venue_orders[id].amount - venue_orders[id].filled)
    /\ venue_orders' = [venue_orders EXCEPT
           ![id].filled = @ + quantity,
           ![id].status = VenueStatus(venue_orders[id].amount, venue_orders[id].filled + quantity)]
    /\ UNCHANGED <<active_orders, order_info, order_history, execution_stats, risk_manager,
                   call, last_call, fills_applied, direct_updates>>
    /\ UNCHANGED other_vars

(* ---------------------------- OrderExecutor ---------------------------- *)
\* The active-order table maps every exchange_id and symbol to a list: a key the
\* dict does not hold reads as the empty list, as in every read the code makes.
OrdersOf(table, exchange_id, symbol) == table[exchange_id][symbol]

\* self.active_orders[exchange_id] holds the key symbol: keys are made at the first
\* order registered under them and are never deleted
HasOrders(info, exchange_id, symbol) ==
    \E id \in 1..Len(info) : info[id].exchange_id = exchange_id /\ info[id].symbol = symbol

\* self.active_orders[exchange_id][symbol] = orders
WithOrders(table, exchange_id, symbol, orders) ==
    [table EXCEPT ![exchange_id][symbol] = orders]

\* every order id the table holds
Tracked(table) == UNION {SeqRange(table[e][s]) : e \in ExchangeIds, s \in Symbols}

\* the exchange an exchange_id names, or the first one that lists the symbol
get_exchange_for_symbol(symbol, exchange_id) ==
    IF exchange_id # NoExchange /\ exchange_id \in Venues THEN exchange_id
    ELSE LET hits == {i \in 1..Len(exchanges) : symbol \in markets[exchanges[i]]}
         IN IF hits # {}
            THEN exchanges[CHOOSE i \in hits : \A j \in hits : i <= j]
            ELSE exchanges[1]

\* the parameter check without its price test
ChecksAmountOnly(a) ==
    ~(a.amount <= 0)

ValidOrderParams(a) ==
    /\ ~(a.amount <= 0)
    /\ ~(a.order_type = "limit" /\ (a.price = NoPrice \/ a.price <= 0))

\* the risk gate of place_order
RiskGate(rm, a) == check_position_limit(rm, a.symbol, a.side, a.amount)

Returns(op, result) ==
    /\ call' = Idle
    /\ last_call' = [op |-> op, result |-> result]

\* the except clause of place_order and cancel_order: sleep and call again while
\* self.retry_attempts > 0, which nothing ever decrements
Retries(op, a, n, failures) ==
    IF retry_attempts > 0
    THEN /\ call' = [pc |-> op, args |-> a, attempts |-> n, create_failures |-> failures]
         /\ last_call' = [op |-> op, result |-> "Retry"]
    ELSE Returns(op, IF op = "place_order" THEN "ExecutionFailed" ELSE "False")

\* create and cancel requests are followed to a failure while the venues hold no
\* order yet
VenueMayRaise == venue_orders = <<>>

\* a quote: a limit order of the largest size for the first symbol, sent to the
\* first exchange by name
Quote(o) ==
    /\ o.symbol = "BTC/USDT"
    /\ o.type = "limit"
    /\ o.amount = MaxAmount
    /\ o.price = LimitPrice
    /\ o.exchange_id = exchanges[1]

\* the venues take MaxOrders orders if all of them are quotes or if the request
\* is repeated by a call in progress, and one order if not
VenueTakes(a) ==
    /\ Len(venue_orders) < MaxOrders
    /\ venue_orders # <<>> =>
          \/ /\ Quote([symbol |-> a.symbol, type |-> a.order_type, amount |-> a.amount,
                       price |-> a.price, exchange_id |-> a.exchange_id])
             /\ \A id \in 1..Len(order_info) : Quote(order_info[id])
          \/ call.pc = "place_order"

OrderInfo(id, a, status, filled, remaining) ==
    [id |-> id, symbol |-> a.symbol, side |-> a.side, type |-> a.order_type,
     amount |-> a.amount, price |-> a.price, status |-> status, filled |-> filled,
     remaining |-> remaining, exchange_id |-> a.exchange_id]

\* one run of the body of place_order: attempt n of the call, after `failures`
\* create requests of it raised
place_order(a, n, failures) ==
    IF ~ValidOrderParams(a)
    THEN /\ Returns("place_order", "ValidationError")
         /\ UNCHANGED <<active_orders, order_info, order_history, execution_stats,
                        risk_manager, venue_orders, fills_applied, direct_updates>>
    ELSE IF ~RiskGate(risk_manager, a)
    THEN /\ Returns("place_order", "RiskRejected")
         /\ UNCHANGED <<active_orders, order_info, order_history, execution_stats,
                        risk_manager, venue_orders, fills_applied, direct_updates>>
    ELSE IF a.order_type \notin {"limit", "market"}
    THEN /\ Returns("place_order", "UnsupportedType")
         /\ UNCHANGED <<active_orders, order_info, order_history, execution_stats,
                        risk_manager, venue_orders, fills_applied, direct_updates>>
    ELSE \/ \* the create request raises
            /\ VenueMayRaise
            /\ Retries("place_order", a, n, failures + 1)
            /\ UNCHANGED <<active_orders, order_info, order_history, execution_stats,
                           risk_manager, venue_orders, fills_applied, direct_updates>>
         \/ \* the venue accepts the order, with `filled` of it executed at once
            /\ VenueTakes(a)
            /\ \E filled \in 0..a.amount :
                 LET exchange == get_exchange_for_symbol(a.symbol, a.exchange_id)
                     id == Len(venue_orders) + 1
                     status == VenueStatus(a.amount, filled)
                     \* order.get("remaining", amount)
                     remaining == IF ReportsRemaining(exchange)
                                  THEN a.amount - filled ELSE a.amount
                     done == status \in FilledStatuses
                 IN /\ venue_orders' = Append(venue_orders,
                            [venue |-> exchange, symbol |-> a.symbol, amount |-> a.amount,
                             status |-> status, filled |-> filled])
                    /\ active_orders' = WithOrders(active_orders, a.exchange_id, a.symbol,
                            Append(OrdersOf(active_orders, a.exchange_id, a.symbol), id))
                    /\ order_info' = Append(order_info,
                            OrderInfo(id, a, status, filled, remaining))
                    /\ order_history' = Append(order_history, id)
                    /\ execution_stats' = [execution_stats EXCEPT
                            !.orders_placed = @ + 1,
                            !.orders_filled = IF done THEN @ + 1 ELSE @,
                            !.total_volume = IF done THEN @ + a.amount ELSE @]
                    /\ risk_manager' = IF done
                            THEN update_position(risk_manager, a.symbol, a.amount, a.price, a.side)
                            ELSE risk_manager
                    /\ fills_applied' = Append(fills_applied, IF done THEN 1 ELSE 0)
                    /\ IF done /\ UpdatePositionRaises(a.price)
                       THEN Retries("place_order", a, n, failures)
                       ELSE Returns("place_order", "OrderRef")
                    /\ UNCHANGED direct_updates

\* the requests callers make that are well formed: limit orders at a price and
\* market orders with the price omitted
WellFormedRequests ==
    {a \in [symbol : Symbols, side : Sides, order_type : {"limit", "market"},
            amount : 1..MaxAmount, price : Prices, exchange_id : ExchangeIds,
            order_id : {0}] :
        a.price = IF a.order_type = "market" THEN NoPrice ELSE LimitPrice}

\* and three that are not: no amount, a limit order without a price, a type the
\* executor does not support
MalformedRequests ==
    LET a == [symbol |-> "BTC/USDT", side |-> "buy", order_type |-> "limit", amount |-> 1,
              price |-> LimitPrice, exchange_id |-> NoExchange, order_id |-> 0]
    IN {[a EXCEPT !.amount = 0], [a EXCEPT !.price = NoPrice],
        [a EXCEPT !.order_type = "stop"]}

OrderRequests == WellFormedRequests \cup MalformedRequests

PlaceOrder(a) ==
    /\ call.pc = "idle"
    /\ place_order(a, 1, 0)
    /\ UNCHANGED other_vars

\* time.sleep(retry_delay_seconds); return self.place_order(...)
PlaceOrderRetry ==
    /\ call.pc = "place_order"
    /\ call.attempts < MaxAttempts
    /\ place_order(call.args, call.attempts + 1, call.create_failures)
    /\ UNCHANGED other_vars

\* one run of the body of cancel_order
cancel_order(a, n) ==
    \/ \* the cancel request raises
       /\ VenueMayRaise
       /\ Retries("cancel_order", a, n, 0)
       /\ UNCHANGED <<active_orders, order_info, order_history, execution_stats,
                      risk_manager, venue_orders, fills_applied, direct_updates>>
    \/ \* the venue cancels the order, which it still holds open
       LET exchange == get_exchange_for_symbol(a.symbol, a.exchange_id)
       IN   /\ VenueHas(exchange, a.symbol, a.order_id)
            /\ VenueOpen(a.order_id)
            /\ venue_orders' = [venue_orders EXCEPT ![a.order_id].status = "canceled"]
            /\ execution_stats' = [execution_stats EXCEPT !.orders_cancelled = @ + 1]
            /\ order_info' =
                 IF a.order_id \in SeqRange(OrdersOf(active_orders, a.exchange_id, a.symbol))
                 THEN [order_info EXCEPT ![a.order_id].status = "canceled"]
                 ELSE order_info
            /\ Returns("cancel_order", "True")
            /\ UNCHANGED <<active_orders, order_history, risk_manager, fills_applied,
                           direct_updates>>

CancelOrder(symbol, order_id, exchange_id) ==
    /\ call.pc = "idle"
    /\ cancel_order([NoArgs EXCEPT !.symbol = symbol, !.order_id = order_id,
                        !.exchange_id = exchange_id], 1)
    /\ UNCHANGED other_vars

\* time.sleep(retry_delay_seconds); return self.cancel_order(...)
CancelOrderRetry ==
    /\ call.pc = "cancel_order"
    /\ call.attempts < MaxAttempts
    /\ cancel_order(call.args, call.attempts + 1)
    /\ UNCHANGED other_vars

\* the <<exchange, symbol>> pairs cancel_all_orders sends a request for
CancelAllScope(info, symbol, exchange_id) ==
    LET exchanges_to_use == IF exchange_id # NoExchange THEN {exchange_id} ELSE Venues
    IN IF symbol # NoSymbol
       THEN {<<e, symbol>> : e \in exchanges_to_use \cap Venues}
       ELSE {p \in (exchanges_to_use \cap Venues) \X Symbols : HasOrders(info, p[1], p[2])}

\* ClearOrders gone wrong: every list in scope is emptied, cancelled or not
ClearsWholeTable(table, done) ==
    [e \in ExchangeIds |-> [s \in Symbols |->
        IF e \in Venues THEN <<>> ELSE table[e][s]]]

\* the table after cancel_all_orders: the lists of `done` are emptied
ClearOrders(table, done) ==
    [e \in ExchangeIds |-> [s \in Symbols |->
        IF <<e, s>> \in done THEN <<>> ELSE table[e][s]]]

RECURSIVE SumOver(_, _)
SumOver(set, f) ==
    IF set = {} THEN 0
    ELSE LET x == CHOOSE y \in set : TRUE IN f[x] + SumOver(set \ {x}, f)

\* a mis-count: one per request instead of one per listed order
CountsRequests(table, done) == Cardinality(done)

\* cancelled_count, summed over the lists that are emptied
CancelledCount(table, done) ==
    SumOver(done, [p \in done |-> Len(OrdersOf(table, p[1], p[2]))])

\* the body of cancel_all_orders; failing are the requests that raise
cancel_all_orders(symbol, exchange_id, failing) ==
    LET done == CancelAllScope(order_info, symbol, exchange_id) \ failing
    IN /\ venue_orders' = VenueCancelAll(done)
       /\ execution_stats' = [execution_stats EXCEPT
              !.orders_cancelled = @ + CancelledCount(active_orders, done)]
       /\ active_orders' = ClearOrders(active_orders, done)
       /\ Returns("cancel_all_orders", IF failing = {} THEN "True" ELSE "False")
       /\ UNCHANGED <<order_info, order_history, risk_manager, fills_applied,
                      direct_updates>>

CancelAllOrders(symbol, exchange_id) ==
    /\ call.pc = "idle"
    /\ \E failing \in SUBSET CancelAllScope(order_info, symbol, exchange_id) :
          cancel_all_orders(symbol, exchange_id, failing)
    /\ UNCHANGED other_vars

\* get_order_status(symbol, order_id, exchange_id); when fetch_order raises it
\* returns None and changes nothing
GetOrderStatus(symbol, order_id, exchange_id) ==
    /\ call.pc = "idle"
    /\ LET exchange == get_exchange_for_symbol(symbol, exchange_id)
           order == FetchResponse(order_id)
       IN  /\ VenueHas(exchange, symbol, order_id)
           /\ order_id \in SeqRange(OrdersOf(active_orders, exchange_id, symbol))
           /\ order_info' = [order_info EXCEPT ![order_id].status = order.status,
                                               ![order_id].filled = order.filled,
                                               ![order_id].remaining = GetRemaining(order, 0)]
    /\ UNCHANGED <<active_orders, order_history, execution_stats, risk_manager,
                   venue_orders, call, last_call, fills_applied, direct_updates>>
    /\ UNCHANGED other_vars

(* ------------------------- reconciliation pass ------------------------- *)
RECURSIVE Concat(_)
Concat(lists) == IF lists = <<>> THEN <<>> ELSE Head(lists) \o Concat(Tail(lists))

\* the exchanges update_orders visits: if exchange_id not in self.exchanges: continue
Reconciled(exchange_id) == exchange_id \in Venues

\* active_orders of update_orders: the orders of a list that are not finished yet
Unfinished(orders, info) ==
    SeqFilter(orders, {id \in 1..Len(info) : info[id].status \notin Terminal})

\* the keys update_orders fetches orders for
FetchKeys(table, info) ==
    {p \in ExchangeIds \X Symbols :
        Reconciled(p[1]) /\ Unfinished(table[p[1]][p[2]], info) # <<>>}

\* The dicts are walked in the order their keys were inserted, which the table
\* above does not keep: every order of the keys is followed.
KeyOrders(keys) ==
    {order \in [1..Cardinality(keys) -> keys] :
        \A i, j \in 1..Cardinality(keys) : order[i] = order[j] => i = j}

\* the orders update_orders fetches, in the order it fetches them
OrdersToFetch(table, info, order) ==
    Concat([i \in 1..Len(order) |-> Unfinished(table[order[i][1]][order[i][2]], info)])

\* the try block of update_orders for one order; st holds what the pass writes
ReconcileOrder(id, st) ==
    LET order == st.order_info[id]
        updated_order == FetchResponse(id)
        done == updated_order.status \in FilledStatuses
    IN [order_info |-> [st.order_info EXCEPT
            ![id].status = updated_order.status,
            ![id].filled = updated_order.filled,
            ![id].remaining = GetRemaining(updated_order, 0)],
        execution_stats |-> IF done
            THEN [st.execution_stats EXCEPT !.orders_filled = @ + 1,
                                            !.total_volume = @ + order.amount]
            ELSE st.execution_stats,
        risk_manager |-> IF done
            THEN update_position(st.risk_manager, order.symbol, order.amount,
                                 order.price, order.side)
            ELSE st.risk_manager,
        fills_applied |-> IF done
            THEN [st.fills_applied EXCEPT ![id] = @ + 1]
            ELSE st.fills_applied]

\* a pass that gives up at the first order whose fetch fails
RECURSIVE StopsAtFailure(_, _, _)
StopsAtFailure(ids, st, failing) ==
    IF ids = <<>> \/ Head(ids) \in failing THEN st
    ELSE StopsAtFailure(Tail(ids), ReconcileOrder(Head(ids), st), failing)

\* the loop of update_orders over the orders ids: the except clause logs the
\* orders of failing and goes on
RECURSIVE ReconcileOrders(_, _, _)
ReconcileOrders(ids, st, failing) ==
    IF ids = <<>> THEN st
    ELSE LET id == Head(ids)
         IN ReconcileOrders(Tail(ids),
                            IF id \in failing THEN st ELSE ReconcileOrder(id, st),
                            failing)

\* the lists of the visited exchanges without the finished and the too old orders.
\* Order ids follow the order of placement, so the orders older than
\* max_order_age_seconds are the ids up to some id, too_old, that the clock decides.
PruneOrders(table, info, too_old) ==
    [e \in ExchangeIds |-> [s \in Symbols |->
        IF Reconciled(e)
        THEN SeqFilter(table[e][s],
                 {id \in 1..Len(info) : info[id].status \notin Terminal /\ id > too_old})
        ELSE table[e][s]]]

\* update_orders() walking the keys in the given order, with the fetches of
\* failing raising and the orders up to too_old past max_order_age_seconds
update_orders(order, failing, too_old) ==
    LET ids == OrdersToFetch(active_orders, order_info, order)
        st == ReconcileOrders(ids,
                  [order_info |-> order_info, execution_stats |-> execution_stats,
                   risk_manager |-> risk_manager, fills_applied |-> fills_applied],
                  failing)
    IN /\ order_info' = st.order_info
       /\ execution_stats' = st.execution_stats
       /\ risk_manager' = st.risk_manager
       /\ fills_applied' = st.fills_applied
       /\ active_orders' = PruneOrders(active_orders, st.order_info, too_old)
       /\ UNCHANGED <<order_history, venue_orders, call, last_call, direct_updates>>

\* update_orders(), run by the background loop once a second
UpdateOrders ==
    /\ \E order \in KeyOrders(FetchKeys(active_orders, order_info)) :
         \E failing \in SUBSET SeqRange(OrdersToFetch(active_orders, order_info, order)),
            too_old \in 0..Len(order_info) :
              update_orders(order, failing, too_old)
    /\ UNCHANGED other_vars

(* ------------------ RiskManager.update_position, direct ---------------- *)
UpdatePosition(symbol, amount, price, side) ==
    /\ direct_updates < MaxUpdates
    /\ direct_updates' = direct_updates + 1
    /\ risk_manager' = update_position(risk_manager, symbol, amount, price, side)
    /\ last_call' = [op |-> "update_position",
                     result |-> IF UpdatePositionRaises(price) THEN "TypeError" ELSE "Done"]
    /\ UNCHANGED <<active_orders, order_info, order_history, execution_stats,
                   venue_orders, call, fills_applied>>
    /\ UNCHANGED other_vars

(* ---------------------------- specifications --------------------------- *)
OrderIds == 1..MaxOrders

Next ==
    \/ \E a \in OrderRequests : PlaceOrder(a)
    \/ PlaceOrderRetry
    \/ \E symbol \in Symbols, order_id \in OrderIds, exchange_id \in ExchangeIds :
          CancelOrder(symbol, order_id, exchange_id)
    \/ CancelOrderRetry
    \/ \E symbol \in Symbols \cup {NoSymbol}, exchange_id \in ExchangeIds :
          CancelAllOrders(symbol, exchange_id)
    \/ \E symbol \in Symbols, order_id \in OrderIds, exchange_id \in ExchangeIds :
          GetOrderStatus(symbol, order_id, exchange_id)
    \/ UpdateOrders
    \/ \E id \in OrderIds, quantity \in 1..MaxAmount : VenueFill(id, quantity)

Spec == Init /\ [][Next]_vars

\* the RiskManager alone, driven by any update_position calls
NextRisk ==
    \E symbol \in Symbols, amount \in (0 - 1)..MaxAmount, price \in Prices \cup {0 - LimitPrice},
       side \in Sides : UpdatePosition(symbol, amount, price, side)

SpecRisk == Init /\ [][NextRisk]_vars

(* ------------------------------- claims -------------------------------- *)
\* a step in which place_order sends a create request: the venue takes the order,
\* or the request raises
CreateRequested ==
    \/ Len(venue_orders') > Len(venue_orders)
    \/ call'.pc = "place_order" /\ call'.create_failures > call.create_failures

\* the order that step asks for
RequestedOrder ==
    IF Len(venue_orders') > Len(venue_orders)
    THEN LET o == order_info'[Len(order_info')]
         IN [symbol |-> o.symbol, side |-> o.side, amount |-> o.amount]
    ELSE [symbol |-> call'.args.symbol, side |-> call'.args.side,
          amount |-> call'.args.amount]

\* the position a trade would lead to exceeds the limit
OverLimit(symbol, side, amount) ==
    LET position == risk_manager.positions[symbol]
    IN \/ side = "buy" /\ Abs(position + amount) > max_position_size
       \/ side = "sell" /\ Abs(position - amount) > max_position_size

\* C1: a PlaceOrder call whose create requests all fail retries at most
\* retry_attempts times: it is never waiting to retry after more than
\* retry_attempts failed requests.
C1_RetriesAreBounded ==
    (call.pc = "place_order" /\ call.attempts = call.create_failures)
        => call.create_failures <= retry_attempts

\* C2: a PlaceOrder call whose trade would take the position over the limit
\* returns the rejection and changes neither the venues, the table nor the
\* history; and no step sends a create request or registers an order for a trade
\* over the limit.
C2_RejectedOrderLeavesNoTrace ==
    [][ /\ (call.pc = "idle" /\ last_call'.op = "place_order") =>
              \A symbol \in Symbols, side \in Sides, amount \in 1..MaxAmount :
                 OverLimit(symbol, side, amount) =>
                    \A order_type \in OrderTypes, price \in Prices, exchange_id \in ExchangeIds :
                       LET a == [symbol |-> symbol, side |-> side, order_type |-> order_type,
                                 amount |-> amount, price |-> price,
                                 exchange_id |-> exchange_id, order_id |-> 0]
                       IN (a \in OrderRequests /\ ValidOrderParams(a) /\ PlaceOrder(a))
                          => /\ last_call'.result = "RiskRejected"
                             /\ call' = Idle
                             /\ UNCHANGED <<venue_orders, active_orders, order_info,
                                            order_history>>
        /\ (CreateRequested \/ Len(order_history') > Len(order_history))
              => ~OverLimit(RequestedOrder.symbol, RequestedOrder.side,
                            RequestedOrder.amount)
      ]_vars

\* C2 witness: a call was rejected while a position stood at the limit
C2_RejectedAtTheLimit ==
    /\ last_call = [op |-> "place_order", result |-> "RiskRejected"]
    /\ \E symbol \in Symbols : Abs(risk_manager.positions[symbol]) = max_position_size

\* C3: every order in the table whose status is no longer new has
\* filled + remaining = amount.
C3_FilledPlusRemainingIsAmount ==
    \A id \in Tracked(active_orders) :
        order_info[id].status # "new"
            => order_info[id].filled + order_info[id].remaining = order_info[id].amount

\* C4: over any update_position calls the peak capital never decreases, the
\* current capital never exceeds it, and the drawdown is never negative.
C4_PeakBoundsCapital ==
    /\ risk_manager.current_capital <= risk_manager.peak_capital
    /\ [][ /\ risk_manager'.peak_capital >= risk_manager.peak_capital
           /\ risk_manager'.current_capital <= risk_manager'.peak_capital
           /\ risk_manager'.peak_capital > 0 => DrawdownTimesPeak(risk_manager') >= 0
         ]_vars

\* C4 witness: the peak has risen and the capital has fallen below it since
C4_PeakRoseThenCapitalFell ==
    /\ risk_manager.peak_capital > initial_capital * FeeDenominator
    /\ risk_manager.current_capital < risk_manager.peak_capital
    /\ last_call.op = "update_position"

\* C5: in every state, if the position limit admits an amount it admits every
\* smaller amount for the same symbol and side.
C5_LimitIsMonotonicInAmount ==
    \A symbol \in Symbols, side \in Sides, smaller \in 1..MaxAmount, amount \in 1..MaxAmount :
        (smaller < amount /\ check_position_limit(risk_manager, symbol, side, amount))
            => check_position_limit(risk_manager, symbol, side, smaller)

\* C6: while the drawdown exceeds max_drawdown_percent no step sends a create
\* request.
C6_NoCreateBeyondDrawdown ==
    [][DrawdownExceeds(risk_manager) => ~CreateRequested]_vars

\* the outcomes of place_order and cancel_order that are a rejection or a failure
Refusals == {"ValidationError", "RiskRejected", "UnsupportedType", "ExecutionFailed", "False"}

\* C7: every PlaceOrder or CancelOrder call that ends in a rejection or a
\* failure changes a counter of the execution statistics or the risk report.
C7_RefusalsAreCounted ==
    [][ (/\ last_call' # last_call
         /\ last_call'.op \in {"place_order", "cancel_order"}
         /\ last_call'.result \in Refusals)
        => (execution_stats' # execution_stats \/ risk_manager' # risk_manager)
      ]_vars

\* C8: every order the executor has recorded as filled or closed has had its
\* fill applied to the RiskManager exactly once, and no order more than once.
C8_FillsAppliedOnce ==
    \A id \in 1..Len(order_info) :
        /\ fills_applied[id] <= 1
        /\ order_info[id].status \in FilledStatuses => fills_applied[id] = 1

\* C9: every order in the table that is not finished is registered under the
\* venue that holds it and is among the orders a reconciliation pass fetches.
C9_OpenOrdersAreReconciled ==
    \A id \in Tracked(active_orders) :
        order_info[id].status \notin Terminal
            => /\ order_info[id].exchange_id = venue_orders[id].venue
               /\ \E order \in KeyOrders(FetchKeys(active_orders, order_info)) :
                     id \in SeqRange(OrdersToFetch(active_orders, order_info, order))

\* no order is left in the table for the symbol on any exchange
NoOrdersRemain(symbol) == \A e \in Venues : active_orders[e][symbol] = <<>>

\* a CancelAllOrders(symbol) call right after a CancelAllOrders call that
\* succeeded, with no order left for the symbol
SecondCancelAll(symbol, failing) ==
    /\ last_call = [op |-> "cancel_all_orders", result |-> "True"]
    /\ NoOrdersRemain(symbol)
    /\ call.pc = "idle"
    /\ cancel_all_orders(symbol, NoExchange, failing)

\* C10 (as written): CancelAllOrders(symbol) called again with no orders left
\* returns success, adds nothing to orders_cancelled and leaves the table as it is.
C10_SecondCancelAllSucceeds ==
    [][ \A symbol \in Symbols :
          \A failing \in SUBSET CancelAllScope(order_info, symbol, NoExchange) :
            SecondCancelAll(symbol, failing)
              => /\ last_call'.result = "True"
                 /\ execution_stats'.orders_cancelled = execution_stats.orders_cancelled
                 /\ active_orders' = active_orders
      ]_vars

\* C10 (amended): CancelAllOrders(symbol) called again with no orders left adds
\* nothing to orders_cancelled and leaves the table as it is, in every case; it
\* returns success if no cancel request to a venue raises, and failure otherwise.
C10_SecondCancelAllChangesNothing ==
    [][ \A symbol \in Symbols :
          \A failing \in SUBSET CancelAllScope(order_info, symbol, NoExchange) :
            SecondCancelAll(symbol, failing)
              => /\ last_call'.result = (IF failing = {} THEN "True" ELSE "False")
                 /\ execution_stats'.orders_cancelled = execution_stats.orders_cancelled
                 /\ active_orders' = active_orders
      ]_vars

\* C10 witness: a CancelAllOrders call succeeded, orders were counted as
\* cancelled, and none is left for the symbol
C10_NothingLeftToCancel ==
    /\ last_call = [op |-> "cancel_all_orders", result |-> "True"]
    /\ execution_stats.orders_cancelled > 0
    /\ \A symbol \in Symbols : NoOrdersRemain(symbol)

(* ------------------- an executor with orders on its books --------------- *)
\* the open limit orders callers may have placed, of the largest size
OpenOrderRequests ==
    {a \in WellFormedRequests : a.order_type = "limit" /\ a.amount = MaxAmount /\ a.side = "buy"}

\* the table after place_order has registered the requests of book, in turn
RECURSIVE Registered(_, _)
Registered(book, n) ==
    IF n = 0 THEN [e \in ExchangeIds |-> [s \in Symbols |-> <<>>]]
    ELSE LET table == Registered(book, n - 1)
             a == book[n]
         IN WithOrders(table, a.exchange_id, a.symbol,
                       Append(OrdersOf(table, a.exchange_id, a.symbol), n))

\* the state after MaxOrders successful place_order calls whose orders are all
\* still open
InitBook ==
    \E book \in [1..MaxOrders -> OpenOrderRequests] :
        /\ active_orders = Registered(book, MaxOrders)
        /\ order_info = [id \in 1..MaxOrders |->
                            OrderInfo(id, book[id], "new", 0, book[id].amount)]
        /\ order_history = [id \in 1..MaxOrders |-> id]
        /\ execution_stats = [orders_placed |-> MaxOrders, orders_filled |-> 0,
                              orders_cancelled |-> 0, orders_rejected |-> 0,
                              total_volume |-> 0]
        /\ risk_manager = [positions |-> [s \in Symbols |-> 0],
                           current_capital |-> initial_capital * FeeDenominator,
                           peak_capital |-> initial_capital * FeeDenominator]
        /\ venue_orders = [id \in 1..MaxOrders |->
                            [venue |-> get_exchange_for_symbol(book[id].symbol,
                                                               book[id].exchange_id),
                             symbol |-> book[id].symbol, amount |-> book[id].amount,
                             status |-> "new", filled |-> 0]]
        /\ call = Idle
        /\ last_call = [op |-> "place_order", result |-> "OrderRef"]
        /\ fills_applied = [id \in 1..MaxOrders |-> 0]
        /\ direct_updates = 0
        /\ threads = [t \in Threads |-> NotCalling]
        /\ order_lock = Unlocked
        /\ engine = EngineStarted
        /\ execution_loop = LoopStarted
        /\ strategy = StrategyBuilt
        /\ risk_calls = NoRiskCalls
        /\ risk_metrics = NoDrawdownYet
        /\ pure_call = NoPureCall
        /\ arbitrage = ArbitrageBuilt
        /\ market_maker = MarketMakerBuilt
        /\ adaptive = AdaptiveBuilt

\* cancel_all_orders calls on such an executor
NextCancelAll ==
    \E symbol \in Symbols \cup {NoSymbol}, exchange_id \in ExchangeIds :
        CancelAllOrders(symbol, exchange_id)

SpecCancelAll == InitBook /\ [][NextCancelAll]_vars

\* C11: when the cancel requests for some (venue, symbol) pairs of a
\* CancelAllOrders call fail, the call still cancels at the venue and empties
\* the list of every other pair in its scope, keeps the lists of the failed
\* pairs as they are, and returns false exactly when some request failed.
C11_CancelAllToleratesFailures ==
    [][ (call.pc = "idle" /\ last_call'.op = "cancel_all_orders") =>
          \A symbol \in Symbols \cup {NoSymbol}, exchange_id \in ExchangeIds :
            \A failing \in SUBSET CancelAllScope(order_info, symbol, exchange_id) :
              cancel_all_orders(symbol, exchange_id, failing) =>
                /\ \A p \in CancelAllScope(order_info, symbol, exchange_id) :
                     IF p \in failing
                     THEN active_orders'[p[1]][p[2]] = active_orders[p[1]][p[2]]
                     ELSE /\ active_orders'[p[1]][p[2]] = <<>>
                          /\ \A id \in 1..Len(venue_orders) :
                               (venue_orders[id].venue = p[1] /\ venue_orders[id].symbol = p[2])
                                 => venue_orders'[id].status \notin {"new", "partially_filled"}
                /\ last_call'.result = (IF failing = {} THEN "True" ELSE "False")
      ]_vars

\* C11 witness: a call returned false, the orders of one list are still
\* tracked and open, and the orders of another were cancelled and counted
C11_SomeCancelledSomeKept ==
    /\ last_call = [op |-> "cancel_all_orders", result |-> "False"]
    /\ execution_stats.orders_cancelled = 1
    /\ \E id \in Tracked(active_orders) :
          /\ order_info[id].exchange_id \in Venues
          /\ venue_orders[id].status = "new"
    /\ \E id \in 1..Len(venue_orders) : venue_orders[id].status = "canceled"

\* C12: a CancelOrder call whose cancel requests all fail retries at most
\* retry_attempts times: it is never waiting to retry after more than
\* retry_attempts failed requests.
C12_CancelRetriesAreBounded ==
    call.pc = "cancel_order" => call.attempts <= retry_attempts

\* C13: whenever CancelOrder(symbol, order_id, exchange_id) returns true for an
\* order the table tracks, the local status of that order is "canceled" right
\* after the call, whichever exchange_id the order was placed and cancelled with.
C13_CancelledOrderIsMarked ==
    [][ (call.pc = "idle" /\ last_call' = [op |-> "cancel_order", result |-> "True"]) =>
          \A order_id \in Tracked(active_orders) :
            \A symbol \in Symbols, exchange_id \in ExchangeIds :
              CancelOrder(symbol, order_id, exchange_id)
                => order_info'[order_id].status = "canceled"
      ]_vars

\* C14: a PlaceOrder call with amount <= 0, or for a limit order without a
\* positive price, returns at once as a validation failure: it is not retried,
\* no request reaches the venue, the risk gate does not decide its result, and
\* the table, the history, the execution statistics and the risk state are
\* left as they were.
C14_InvalidOrderIsRejectedAtOnce ==
    [][ (call.pc = "idle" /\ last_call'.op = "place_order") =>
          \A a \in {r \in OrderRequests :
                      \/ r.amount <= 0
                      \/ r.order_type = "limit" /\ (r.price = NoPrice \/ r.price <= 0)} :
            PlaceOrder(a) =>
              /\ call' = Idle
              /\ last_call'.result = "ValidationError"
              /\ UNCHANGED <<active_orders, order_info, order_history, execution_stats,
                             risk_manager, venue_orders>>
      ]_vars

\* C14 witness: an invalid request was turned away by an executor that tracks
\* an order
C14_InvalidOrderRejected ==
    /\ last_call = [op |-> "place_order", result |-> "ValidationError"]
    /\ Tracked(active_orders) # {}
    /\ venue_orders # <<>>

(* ------------------- reconciliation of a book of orders ----------------- *)
NextReconcile ==
    \/ UpdateOrders
    \/ \E id \in OrderIds, quantity \in 1..MaxAmount : VenueFill(id, quantity)

SpecReconcile == InitBook /\ [][NextReconcile]_vars

\* C15: in one update_orders pass, whichever fetches fail, every other unfinished
\* order of the visited lists is fetched and processed: its status, filled and
\* remaining are those of the venue's response, and a filled one is counted.
C15_FailureSparesOtherOrders ==
    [][ (call' = call /\ venue_orders' = venue_orders) =>
          \A order \in KeyOrders(FetchKeys(active_orders, order_info)) :
            \A failing \in SUBSET SeqRange(OrdersToFetch(active_orders, order_info, order)),
               too_old \in 0..Len(order_info) :
              update_orders(order, failing, too_old) =>
                \A id \in Tracked(active_orders) :
                  (/\ order_info[id].exchange_id \in Venues
                   /\ order_info[id].status \notin Terminal
                   /\ id \notin failing)
                    => /\ order_info'[id].status = venue_orders[id].status
                       /\ order_info'[id].filled = venue_orders[id].filled
                       /\ venue_orders[id].status \in FilledStatuses
                            => fills_applied'[id] = fills_applied[id] + 1
      ]_vars

\* C15 witness: after a pass one order still shows the state it had before the
\* venue filled it, its fetch having failed, while the fill of another order
\* of another list has been applied
C15_OneFailedOtherProcessed ==
    \E id, other \in Tracked(active_orders) \cup {id \in 1..Len(order_info) : fills_applied[id] > 0} :
        /\ id # other
        /\ order_info[id].exchange_id \in Venues
        /\ order_info[id].status = "new" /\ venue_orders[id].status = "filled"
        /\ order_info[other].status = "filled" /\ fills_applied[other] = 1
        /\ <<order_info[id].exchange_id, order_info[id].symbol>>
             # <<order_info[other].exchange_id, order_info[other].symbol>>

(* ------------------- the methods, statement by statement ---------------- *)
\* Each method is the graph of its statements: what a statement does (a local
\* computation, a request to a venue, an access to self.active_orders, taking or
\* leaving self.order_lock, a sleep) and the statements that may follow it.
Stmt(kind, next) == [kind |-> kind, next |-> next]

\* place_order with the sleep of its except clause moved inside the with block
SleepsInsideLock ==
    [validate |-> Stmt("local", {"resolve", "return"}),
     resolve  |-> Stmt("venue", {"risk"}),
     risk     |-> Stmt("local", {"acquire", "return"}),
     acquire  |-> Stmt("acquire", {"init_key"}),
     init_key |-> Stmt("table", {"create"}),
     create   |-> Stmt("venue", {"register", "sleep"}),
     register |-> Stmt("table", {"release"}),
     release  |-> Stmt("release", {"return"}),
     sleep    |-> Stmt("sleep", {"unwind"}),
     unwind   |-> Stmt("release", {"validate"}),
     return   |-> Stmt("return", {})]

\* place_order: the create request and the registration of the order run inside
\* `with self.order_lock`; an exception leaves the with block, and the except
\* clause sleeps and calls place_order again
place_order_code ==
    [validate |-> Stmt("local", {"resolve", "return"}),
     resolve  |-> Stmt("venue", {"risk"}),
     risk     |-> Stmt("local", {"acquire", "return"}),
     acquire  |-> Stmt("acquire", {"init_key"}),
     init_key |-> Stmt("table", {"create"}),
     create   |-> Stmt("venue", {"register", "unwind"}),
     register |-> Stmt("table", {"release"}),
     release  |-> Stmt("release", {"return"}),
     unwind   |-> Stmt("release", {"sleep"}),
     sleep    |-> Stmt("sleep", {"validate"}),
     return   |-> Stmt("return", {})]

cancel_order_code ==
    [resolve |-> Stmt("venue", {"acquire"}),
     acquire |-> Stmt("acquire", {"cancel"}),
     cancel  |-> Stmt("venue", {"mark", "unwind"}),
     mark    |-> Stmt("table", {"release"}),
     release |-> Stmt("release", {"return"}),
     unwind  |-> Stmt("release", {"sleep"}),
     sleep   |-> Stmt("sleep", {"resolve"}),
     return  |-> Stmt("return", {})]

\* cancel_all_orders: the whole body is inside the with block; the exceptions of
\* the venue requests are caught inside it
cancel_all_orders_code ==
    [acquire |-> Stmt("acquire", {"scope"}),
     scope   |-> Stmt("table", {"request", "release"}),
     request |-> Stmt("venue", {"clear", "scope"}),
     clear   |-> Stmt("table", {"scope"}),
     release |-> Stmt("release", {"return"}),
     return  |-> Stmt("return", {})]

\* get_order_status writing the fetched status without taking the lock
WritesWithoutLock ==
    [resolve |-> Stmt("venue", {"fetch"}),
     fetch   |-> Stmt("venue", {"write", "return"}),
     write   |-> Stmt("table", {"return"}),
     return  |-> Stmt("return", {})]

\* get_order_status: the fetch is made before the lock is taken, the table is
\* written inside the with block
get_order_status_code ==
    [resolve |-> Stmt("venue", {"fetch"}),
     fetch   |-> Stmt("venue", {"acquire", "return"}),
     acquire |-> Stmt("acquire", {"write"}),
     write   |-> Stmt("table", {"release"}),
     release |-> Stmt("release", {"return"}),
     return  |-> Stmt("return", {})]

\* update_orders: the walk, the fetches, the writes and the pruning are all
\* inside the with block; a fetch that raises is caught inside it
update_orders_code ==
    [acquire |-> Stmt("acquire", {"walk"}),
     walk    |-> Stmt("table", {"fetch", "prune", "release"}),
     fetch   |-> Stmt("venue", {"write", "walk"}),
     write   |-> Stmt("table", {"walk"}),
     prune   |-> Stmt("table", {"walk"}),
     release |-> Stmt("release", {"return"}),
     return  |-> Stmt("return", {})]

get_active_orders_code ==
    [acquire |-> Stmt("acquire", {"collect"}),
     collect |-> Stmt("table", {"release"}),
     release |-> Stmt("release", {"return"}),
     return  |-> Stmt("return", {})]

Methods == {"place_order", "cancel_order", "cancel_all_orders", "get_order_status",
            "update_orders", "get_active_orders"}

Code(op) ==
    CASE op = "place_order"       -> place_order_code
      [] op = "cancel_order"      -> cancel_order_code
      [] op = "cancel_all_orders" -> cancel_all_orders_code
      [] op = "get_order_status"  -> get_order_status_code
      [] op = "update_orders"     -> update_orders_code
      [] op = "get_active_orders" -> get_active_orders_code

\* the first statement of a method
Entry(op) ==
    CASE op = "place_order" -> "validate"
      [] op \in {"cancel_order", "get_order_status"} -> "resolve"
      [] OTHER -> "acquire"

\* the execution thread runs update_orders and nothing else; update_orders is
\* public and the other threads may call it as well
MethodsOf(t) == IF t = "execution_thread" THEN {"update_orders"} ELSE Methods

Calling(t) == threads[t] # NotCalling

\* the statement thread t is about to run
Statement(t) == Code(threads[t].op)[threads[t].at]

Goes(t, next) ==
    threads' = [threads EXCEPT ![t].at = next]

Call(t, op) ==
    /\ ~Calling(t)
    /\ threads' = [threads EXCEPT ![t] = [op |-> op, at |-> Entry(op)]]
    /\ UNCHANGED <<order_lock, executor_vars, engine_vars, component_vars>>

\* RLock.acquire: blocks while another thread owns the lock
Acquire(t) ==
    /\ Calling(t)
    /\ Statement(t).kind = "acquire"
    /\ order_lock.owner \in {"none", t}
    /\ order_lock' = [owner |-> t, count |-> order_lock.count + 1]
    /\ \E next \in Statement(t).next : Goes(t, next)
    /\ UNCHANGED <<executor_vars, engine_vars, component_vars>>

\* RLock.release, at the end of the with block or when an exception leaves it
Release(t) ==
    /\ Calling(t)
    /\ Statement(t).kind = "release"
    /\ order_lock' = IF order_lock.owner = t
                     THEN IF order_lock.count = 1 THEN Unlocked
                          ELSE [order_lock EXCEPT !.count = @ - 1]
                     ELSE order_lock
    /\ \E next \in Statement(t).next : Goes(t, next)
    /\ UNCHANGED <<executor_vars, engine_vars, component_vars>>

\* any other statement; a venue request goes on normally or raises
Run(t) ==
    /\ Calling(t)
    /\ Statement(t).kind \in {"local", "venue", "table", "sleep"}
    /\ \E next \in Statement(t).next : Goes(t, next)
    /\ UNCHANGED <<order_lock, executor_vars, engine_vars, component_vars>>

Return(t) ==
    /\ Calling(t)
    /\ Statement(t).kind = "return"
    /\ threads' = [threads EXCEPT ![t] = NotCalling]
    /\ UNCHANGED <<order_lock, executor_vars, engine_vars, component_vars>>

NextLock ==
    \/ \E t \in Threads : \E op \in MethodsOf(t) : Call(t, op)
    \/ \E t \in Threads : Acquire(t)
    \/ \E t \in Threads : Release(t)
    \/ \E t \in Threads : Run(t)
    \/ \E t \in Threads : Return(t)

SpecLock == Init /\ [][NextLock]_vars

\* C16: every statement of place_order, cancel_order, cancel_all_orders,
\* get_order_status, get_active_orders and update_orders that reads or writes
\* self.active_orders is run by a thread that holds self.order_lock, and by no
\* two threads at once.
C16_TableAccessIsLocked ==
    \A t \in Threads :
        (Calling(t) /\ Statement(t).kind = "table")
            => /\ order_lock.owner = t
               /\ \A u \in Threads \ {t} : ~(Calling(u) /\ Statement(u).kind = "table")

\* C16 witness: one thread is at a table access of get_order_status while the
\* two others wait for the lock
C16_OneInsideOthersWaiting ==
    \E t \in Threads :
        /\ threads[t] = [op |-> "get_order_status", at |-> "write"]
        /\ \A u \in Threads \ {t} : Calling(u) /\ Statement(u).kind = "acquire"

\* C17: a thread that sleeps between two attempts of place_order or
\* cancel_order does not hold self.order_lock.
C17_SleepsWithoutLock ==
    \A t \in Threads :
        (Calling(t) /\ Statement(t).kind = "sleep") => order_lock.owner # t

\* C17 witness: while the strategy sleeps before retrying place_order and the
\* caller before retrying cancel_order, the execution thread is inside
\* update_orders with the lock
C17_LoopRunsDuringSleep ==
    /\ threads["strategy"] = [op |-> "place_order", at |-> "sleep"]
    /\ threads["caller"] = [op |-> "cancel_order", at |-> "sleep"]
    /\ threads["execution_thread"] = [op |-> "update_orders", at |-> "fetch"]
    /\ order_lock.owner = "execution_thread"

(* --------------------- MarketMakingEngine: stop() ----------------------- *)
\* the orders MarketMakingStrategy._place_orders asks for: limit orders, with
\* the exchange_id left out
StrategyRequests ==
    {a \in WellFormedRequests : a.order_type = "limit" /\ a.exchange_id = NoExchange}

\* while self.running: of _main_loop
MainLoopCheck ==
    /\ engine.main_thread = "check"
    /\ engine' = [engine EXCEPT !.main_thread = IF engine.running THEN "cycle" ELSE "exited"]
    /\ UNCHANGED <<executor_vars, lock_vars, execution_loop, strategy, component_vars>>

\* strategy.execute() of the cycle placing an order
StrategyPlaceOrder(a) ==
    /\ engine.main_thread = "cycle"
    /\ PlaceOrder(a)

\* the same place_order call, trying again after a failed create request
StrategyPlaceOrderRetry ==
    /\ engine.main_thread = "cycle"
    /\ PlaceOrderRetry

\* the end of the cycle: time.sleep(0.1) and back to the test of self.running
CycleEnd ==
    /\ engine.main_thread = "cycle"
    /\ call.pc = "idle"
    /\ engine' = [engine EXCEPT !.main_thread = "check"]
    /\ UNCHANGED <<executor_vars, lock_vars, execution_loop, strategy, component_vars>>

\* stop(), called from another thread: self.running = False
EngineStop ==
    /\ engine.stop = "idle"
    /\ engine.running
    /\ engine' = [engine EXCEPT !.running = FALSE, !.stop = "cancel_all"]
    /\ UNCHANGED <<executor_vars, lock_vars, execution_loop, strategy, component_vars>>

\* stop(): self.order_executor.cancel_all_orders(), followed here when it takes
\* the lock between two place_order calls of the cycle
StopCancelAll ==
    /\ engine.stop = "cancel_all"
    /\ call.pc = "idle"
    /\ \E failing \in SUBSET CancelAllScope(order_info, NoSymbol, NoExchange) :
          cancel_all_orders(NoSymbol, NoExchange, failing)
    /\ engine' = [engine EXCEPT !.stop = "join", !.orders_at_stop = Len(venue_orders)]
    /\ UNCHANGED <<lock_vars, execution_loop, strategy, component_vars>>

\* stop(): self.main_thread.join(timeout=10) returns, the main thread having
\* exited or the ten seconds having passed, and stop() returns
StopJoin ==
    /\ engine.stop = "join"
    /\ engine' = [engine EXCEPT !.stop = "stopped"]
    /\ UNCHANGED <<executor_vars, lock_vars, execution_loop, strategy, component_vars>>

NextEngine ==
    \/ MainLoopCheck
    \/ \E a \in StrategyRequests : StrategyPlaceOrder(a)
    \/ StrategyPlaceOrderRetry
    \/ CycleEnd
    \/ EngineStop
    \/ StopCancelAll
    \/ StopJoin

SpecEngine == Init /\ [][NextEngine]_vars

\* C18: stop() is graceful: once it has made its cancel_all_orders call no
\* further order reaches a venue, and once it has returned the table tracks no
\* order that is still open.
C18_StopIsGraceful ==
    /\ engine.stop \in {"join", "stopped"} => Len(venue_orders) = engine.orders_at_stop
    /\ engine.stop = "stopped" =>
          \A id \in Tracked(active_orders) : order_info[id].status \in Terminal

(* ----------------- OrderExecutor: _execution_loop and stop() ------------- *)
\* a loop that never looks at the flag
IgnoresRunning(loop) == TRUE

\* while self.running: of process_queue
LoopGoesOn(loop) == loop.running

LoopCheck ==
    /\ execution_loop.at = "check"
    /\ execution_loop' = [execution_loop EXCEPT
          !.at = IF LoopGoesOn(execution_loop) THEN "update" ELSE "exited"]
    /\ UNCHANGED <<executor_vars, lock_vars, engine, strategy, component_vars>>

\* self.update_orders(): the pass runs to its end
LoopUpdate ==
    /\ execution_loop.at = "update"
    /\ \E order \in KeyOrders(FetchKeys(active_orders, order_info)) :
         \E failing \in SUBSET SeqRange(OrdersToFetch(active_orders, order_info, order)),
            too_old \in 0..Len(order_info) :
              update_orders(order, failing, too_old)
    /\ execution_loop' = [execution_loop EXCEPT
          !.at = "sleep",
          !.passes = IF execution_loop.running THEN @ ELSE @ + 1]
    /\ UNCHANGED <<lock_vars, engine, strategy, component_vars>>

\* await asyncio.sleep(1), after the pass or in the except clause
LoopSleep ==
    /\ execution_loop.at = "sleep"
    /\ execution_loop' = [execution_loop EXCEPT !.at = "check"]
    /\ UNCHANGED <<executor_vars, lock_vars, engine, strategy, component_vars>>

\* stop(): self.running = False
ExecutorStop ==
    /\ execution_loop.stop = "idle"
    /\ execution_loop' = [execution_loop EXCEPT !.running = FALSE, !.stop = "cancel_all"]
    /\ UNCHANGED <<executor_vars, lock_vars, engine, strategy, component_vars>>

\* stop(): self.cancel_all_orders()
ExecutorStopCancelAll ==
    /\ execution_loop.stop = "cancel_all"
    /\ \E failing \in SUBSET CancelAllScope(order_info, NoSymbol, NoExchange) :
          cancel_all_orders(NoSymbol, NoExchange, failing)
    /\ execution_loop' = [execution_loop EXCEPT !.stop = "join"]
    /\ UNCHANGED <<lock_vars, engine, strategy, component_vars>>

\* stop(): self.execution_thread.join(timeout=10) returns, the thread having
\* exited or the ten seconds having passed
ExecutorStopJoin ==
    /\ execution_loop.stop = "join"
    /\ execution_loop' = [execution_loop EXCEPT !.stop = "stopped"]
    /\ UNCHANGED <<executor_vars, lock_vars, engine, strategy, component_vars>>

NextLoop ==
    \/ LoopCheck
    \/ LoopUpdate
    \/ LoopSleep
    \/ ExecutorStop
    \/ ExecutorStopCancelAll
    \/ ExecutorStopJoin

\* the steps of the execution thread
ExecutionThread == LoopCheck \/ LoopUpdate \/ LoopSleep

\* The execution thread is scheduled, the venue requests of a pass return and
\* the lock, which every method gives back, is granted: the step the thread is
\* at is taken in the end.
SpecLoop ==
    /\ InitBook
    /\ [][NextLoop]_vars
    /\ WF_vars(ExecutionThread)

\* C19: once stop() has cleared self.running the execution loop exits in the
\* end, and it starts at most one update_orders pass after the flag was cleared.
C19_LoopExitsAfterStop ==
    /\ [](execution_loop.passes <= 1)
    /\ (~execution_loop.running) ~> (execution_loop.at = "exited")

\* C19 witness: the loop has exited after a pass it started once the flag was
\* cleared
C19_ExitedAfterOneMorePass ==
    /\ execution_loop.at = "exited"
    /\ execution_loop.passes = 1

(* ------------- MarketMakingStrategy: parameters and cycles -------------- *)
\* the parameters in the order a cycle of execute() first reads them:
\* refresh_rate to decide whether to run, order_count and the spreads in
\* _calculate_order_prices, max_position in the position test, order_size in
\* _place_orders
CycleReads == <<"refresh_rate", "order_count", "spread_bid", "spread_ask",
                "max_position", "order_size">>

CycleDone == Len(CycleReads) + 1

\* the keys callers pass to update_parameters: all of them, or the ones
\* AIOptimizer derives (no max_position)
ParameterKeys ==
    {SeqRange(Parameters), SeqRange(Parameters) \ {"max_position"}}

\* update_parameters(parameters) is called: the set it is to install
UpdateParameters(keys) ==
    /\ strategy.update.at = 0
    /\ Len(strategy.sets) <= MaxParameterUpdates
    /\ LET new == [f \in SeqRange(Parameters) |->
                     IF f \in keys THEN Len(strategy.sets) ELSE strategy.parameters[f]]
       IN strategy' = [strategy EXCEPT !.sets = Append(@, new),
                                       !.update = [at |-> 1, new |-> new]]
    /\ UNCHANGED <<executor_vars, lock_vars, engine, execution_loop, component_vars>>

\* one `if key in parameters: self.key = parameters[key]` of update_parameters
WriteParameter ==
    /\ strategy.update.at > 0
    /\ LET f == Parameters[strategy.update.at]
       IN strategy' = [strategy EXCEPT
             !.parameters[f] = strategy.update.new[f],
             !.update.at = IF @ = Len(Parameters) THEN 0 ELSE @ + 1]
    /\ UNCHANGED <<executor_vars, lock_vars, engine, execution_loop, component_vars>>

\* execute() starts a cycle for a symbol
BeginCycle ==
    /\ strategy.cycle.at \in {0, CycleDone}
    /\ strategy' = [strategy EXCEPT !.cycle = [at |-> 1, seen |-> ParameterSet(NotRead)]]
    /\ UNCHANGED <<executor_vars, lock_vars, engine, execution_loop, component_vars>>

\* the cycle reads the next parameter from self
ReadParameter ==
    /\ strategy.cycle.at \in 1..Len(CycleReads)
    /\ LET f == CycleReads[strategy.cycle.at]
       IN strategy' = [strategy EXCEPT !.cycle.seen[f] = strategy.parameters[f],
                                       !.cycle.at = @ + 1]
    /\ UNCHANGED <<executor_vars, lock_vars, engine, execution_loop, component_vars>>

NextStrategy ==
    \/ \E keys \in ParameterKeys : UpdateParameters(keys)
    \/ WriteParameter
    \/ BeginCycle
    \/ ReadParameter

SpecStrategy == Init /\ [][NextStrategy]_vars

\* C20: the parameters a cycle has read are those of one parameter set, the
\* one in force before some update_parameters call or the one it installs:
\* never some parameters of one set and some of another.
C20_CycleSeesOneParameterSet ==
    strategy.cycle.at = CycleDone =>
        \E k \in 1..Len(strategy.sets) : strategy.cycle.seen = strategy.sets[k]

(* ------------- RiskManager.update_position from two threads ------------ *)
\* RiskManager.__init__ creates no lock and update_position takes none: the
\* statements of two calls interleave wherever the interpreter switches
\* threads, also between the read and the write of `self.current_capital -= ...`

\* a thread calls update_position(symbol, amount, price, side)
BeginUpdate(t, symbol, amount, side) ==
    /\ risk_calls[t].at = "idle"
    /\ risk_calls' = [risk_calls EXCEPT ![t] =
            [NoRiskCall EXCEPT !.at = "read_position",
                               !.args = [symbol |-> symbol, amount |-> amount,
                                         price |-> LimitPrice, side |-> side]]]
    /\ UNCHANGED <<executor_vars, lock_vars, engine_vars, risk_metrics, pure_call,
                   arbitrage, market_maker, adaptive>>

\* current_position = self.positions.get(symbol, 0)
ReadPosition(t) ==
    /\ risk_calls[t].at = "read_position"
    /\ risk_calls' = [risk_calls EXCEPT
            ![t].current_position = PositionOf(risk_manager, risk_calls[t].args.symbol),
            ![t].at = "write_position"]
    /\ UNCHANGED <<executor_vars, lock_vars, engine_vars, risk_metrics, pure_call,
                   arbitrage, market_maker, adaptive>>

\* self.positions[symbol] = new_position
WritePosition(t) ==
    LET c == risk_calls[t]
    IN /\ c.at = "write_position"
       /\ risk_manager' = [risk_manager EXCEPT !.positions[c.args.symbol] =
                               NewPosition(c.current_position, c.args.side, c.args.amount)]
       /\ risk_calls' = [risk_calls EXCEPT ![t].at = "read_capital"]
       /\ UNCHANGED <<active_orders, order_info, order_history, execution_stats,
                      venue_orders, call, last_call, fills_applied, direct_updates>>
       /\ UNCHANGED <<lock_vars, engine_vars, risk_metrics, pure_call, arbitrage,
                      market_maker, adaptive>>

\* the load of self.current_capital in `self.current_capital -= trade_value + fees`
ReadCapital(t) ==
    /\ risk_calls[t].at = "read_capital"
    /\ risk_calls' = [risk_calls EXCEPT
            ![t].current_capital = risk_manager.current_capital,
            ![t].at = "write_capital"]
    /\ UNCHANGED <<executor_vars, lock_vars, engine_vars, risk_metrics, pure_call,
                   arbitrage, market_maker, adaptive>>

\* the store of self.current_capital that ends the same statement
WriteCapital(t) ==
    LET c == risk_calls[t]
    IN /\ c.at = "write_capital"
       /\ risk_manager' = [risk_manager EXCEPT !.current_capital =
               NewCapital(c.current_capital, c.args.amount, c.args.price, c.args.side)]
       /\ risk_calls' = [risk_calls EXCEPT ![t].at = "peak"]
       /\ UNCHANGED <<active_orders, order_info, order_history, execution_stats,
                      venue_orders, call, last_call, fills_applied, direct_updates>>
       /\ UNCHANGED <<lock_vars, engine_vars, risk_metrics, pure_call, arbitrage,
                      market_maker, adaptive>>

\* if self.current_capital > self.peak_capital: self.peak_capital = self.current_capital
WritePeak(t) ==
    /\ risk_calls[t].at = "peak"
    /\ risk_manager' = [risk_manager EXCEPT !.peak_capital =
            NewPeak(risk_manager.current_capital, risk_manager.peak_capital)]
    /\ risk_calls' = [risk_calls EXCEPT ![t].at = "done"]
    /\ UNCHANGED <<active_orders, order_info, order_history, execution_stats,
                   venue_orders, call, last_call, fills_applied, direct_updates>>
    /\ UNCHANGED <<lock_vars, engine_vars, risk_metrics, pure_call, arbitrage,
                   market_maker, adaptive>>

NextRiskCalls ==
    \/ \E t \in RiskCallers, symbol \in Symbols, amount \in 1..MaxAmount, side \in Sides :
          BeginUpdate(t, symbol, amount, side)
    \/ \E t \in RiskCallers : ReadPosition(t)
    \/ \E t \in RiskCallers : WritePosition(t)
    \/ \E t \in RiskCallers : ReadCapital(t)
    \/ \E t \in RiskCallers : WriteCapital(t)
    \/ \E t \in RiskCallers : WritePeak(t)

SpecRiskCalls == Init /\ [][NextRiskCalls]_vars

\* the RiskManager of __init__ after the calls of threads first and then second,
\* one after the other
OneAfterTheOther(first, second) ==
    LET a == risk_calls[first].args
        b == risk_calls[second].args
        rm0 == [positions |-> [s \in Symbols |-> 0],
                current_capital |-> initial_capital * FeeDenominator,
                peak_capital |-> initial_capital * FeeDenominator]
    IN update_position(update_position(rm0, a.symbol, a.amount, a.price, a.side),
                       b.symbol, b.amount, b.price, b.side)

\* C21: when two concurrent update_position calls have both returned, positions
\* and current_capital are what the two calls give in one of the two
\* sequential orders: no update is lost
C21_NoLostUpdate ==
    (\A t \in RiskCallers : risk_calls[t].at = "done") =>
        \E first \in RiskCallers : \E second \in RiskCallers \ {first} :
            /\ risk_manager.positions = OneAfterTheOther(first, second).positions
            /\ risk_manager.current_capital =
                  OneAfterTheOther(first, second).current_capital

(* ------------------------------ fractions ------------------------------ *)
\* exact quotients, kept in lowest terms with a positive denominator
RECURSIVE GCD(_, _)
GCD(a, b) == IF b = 0 THEN a ELSE GCD(b, a % b)

Frac(n, d) ==
    LET s == IF d < 0 THEN 0 - 1 ELSE 1
        g == GCD(Abs(n), Abs(d))
    IN [num |-> (s * n) \div g, den |-> (s * d) \div g]

FracLess(a, b) == a.num * b.den < b.num * a.den

FracMax(a, b) == IF FracLess(a, b) THEN b ELSE a

FracSub(a, b) == Frac(a.num * b.den - b.num * a.den, a.den * b.den)

FracMul(a, b) == Frac(a.num * b.num, a.den * b.den)

Whole(n) == [num |-> n, den |-> 1]

(* -------------------- RiskManager: the check operations ---------------- *)
MaxChecks == 2          \* check operations followed in one behaviour
stop_loss_percent == 2
EntryPrices == {LimitPrice}
Volatilities == {0, 50}     \* get_volatility(symbol, window=24), in percent

\* what the market_data_manager answers to detect_market_manipulation: how many
\* candles get_recent_candles returns (or that it raises) and how the three
\* comparisons on them come out
MarketReadings ==
    [candles : {"few", "enough", "raises"}, volatility_spike : BOOLEAN,
     volume_spike : BOOLEAN, spread_anomaly : BOOLEAN]

\* the RiskManager object: the fields of both variables
RiskManagerObject ==
    [positions |-> risk_manager.positions,
     current_capital |-> risk_manager.current_capital,
     peak_capital |-> risk_manager.peak_capital,
     drawdown_history |-> risk_metrics.drawdown_history,
     max_drawdown |-> risk_metrics.max_drawdown]

\* drawdown_percent = (1 - current_capital / peak_capital) * 100, as a fraction
\* of the peak
DrawdownPercent(self) ==
    Frac(self.peak_capital - self.current_capital, self.peak_capital)

\* a drawdown check that also moved the peak to the current capital
ResetsPeak(self) ==
    IF self.current_capital <= 0 \/ self.peak_capital <= 0 THEN self
    ELSE [self EXCEPT !.drawdown_history = Append(@, DrawdownPercent(self)),
                      !.max_drawdown = FracMax(@, DrawdownPercent(self)),
                      !.peak_capital = self.current_capital]

\* what check_drawdown_limit writes on self: the drawdown appended to
\* drawdown_history and risk_metrics["max_drawdown"] raised to it
RecordDrawdown(self) ==
    IF self.current_capital <= 0 \/ self.peak_capital <= 0 THEN self
    ELSE [self EXCEPT !.drawdown_history = Append(@, DrawdownPercent(self)),
                      !.max_drawdown = FracMax(@, DrawdownPercent(self))]

detect_market_manipulation(market) ==
    IF market.candles = "few" \/ market.candles = "raises" THEN FALSE
    ELSE market.volatility_spike \/ market.volume_spike \/ market.spread_anomaly

_find_hedge_instrument(symbol) ==
    IF symbol = "BTC/USDT" THEN "BTC-PERP" ELSE "ETH-PERP"

should_hedge_position(rm, symbol, market) ==
    LET current_position == PositionOf(rm, symbol)
    IN IF current_position = 0 THEN <<FALSE, "", Whole(0)>>
       ELSE IF detect_market_manipulation(market)
            THEN <<TRUE, _find_hedge_instrument(symbol), Frac(Abs(current_position), 2)>>
            ELSE <<FALSE, "", Whole(0)>>

\* entry_price * (1 -/+ stop_loss_percent * (1 + volatility / 100) / 100); without
\* a market_data_manager the volatility term is absent
calculate_dynamic_stop_loss(entry_price, side, volatility) ==
    LET adjusted == stop_loss_percent * (100 + volatility)
    IN IF side = "long" THEN Frac(entry_price * (10000 - adjusted), 10000)
       ELSE Frac(entry_price * (10000 + adjusted), 10000)

\* a check operation returns: the books of the RiskManager are as `after` has them
Checked(op, result, after) ==
    /\ risk_manager' = [positions |-> after.positions,
                        current_capital |-> after.current_capital,
                        peak_capital |-> after.peak_capital]
    /\ risk_metrics' = [drawdown_history |-> after.drawdown_history,
                        max_drawdown |-> after.max_drawdown,
                        checks |-> risk_metrics.checks + 1,
                        last |-> <<op, result>>]
    /\ UNCHANGED <<active_orders, order_info, order_history, execution_stats,
                   venue_orders, call, last_call, fills_applied, direct_updates>>
    /\ UNCHANGED <<lock_vars, engine_vars, risk_calls, pure_call, arbitrage, market_maker, adaptive>>

CheckPositionLimit(symbol, side, amount) ==
    /\ risk_metrics.checks < MaxChecks
    /\ Checked("check_position_limit",
               check_position_limit(risk_manager, symbol, side, amount), RiskManagerObject)

CheckDrawdownLimit ==
    /\ risk_metrics.checks < MaxChecks
    /\ Checked("check_drawdown_limit", check_drawdown_limit(risk_manager),
               RecordDrawdown(RiskManagerObject))

DetectMarketManipulation(market) ==
    /\ risk_metrics.checks < MaxChecks
    /\ Checked("detect_market_manipulation", detect_market_manipulation(market),
               RiskManagerObject)

ShouldHedgePosition(symbol, market) ==
    /\ risk_metrics.checks < MaxChecks
    /\ Checked("should_hedge_position", should_hedge_position(risk_manager, symbol, market),
               RiskManagerObject)

CalculateDynamicStopLoss(entry_price, side, volatility) ==
    /\ risk_metrics.checks < MaxChecks
    /\ Checked("calculate_dynamic_stop_loss",
               calculate_dynamic_stop_loss(entry_price, side, volatility), RiskManagerObject)

NextChecks ==
    \/ \E symbol \in Symbols, side \in Sides, amount \in 1..MaxAmount :
          CheckPositionLimit(symbol, side, amount)
    \/ CheckDrawdownLimit
    \/ \E market \in MarketReadings : DetectMarketManipulation(market)
    \/ \E symbol \in Symbols, market \in MarketReadings : ShouldHedgePosition(symbol, market)
    \/ \E entry_price \in EntryPrices, side \in {"long", "short"},
          volatility \in Volatilities :
          CalculateDynamicStopLoss(entry_price, side, volatility)
    \/ \E symbol \in Symbols, amount \in 1..MaxAmount, side \in Sides :
          UpdatePosition(symbol, amount, LimitPrice, side)

SpecChecks == Init /\ [][NextChecks]_vars

\* C22: a step of a check operation (check_position_limit, check_drawdown_limit,
\* detect_market_manipulation, should_hedge_position, calculate_dynamic_stop_loss)
\* leaves positions, current_capital and peak_capital as they were; only a step
\* of update_position changes any of them
C22_ChecksLeaveBooksAlone ==
    [][/\ risk_metrics' # risk_metrics => risk_manager' = risk_manager
       /\ risk_manager' # risk_manager => direct_updates' = direct_updates + 1]_vars

\* a drawdown check has recorded a real drawdown, after update_position moved the books
C22_DrawdownRecorded ==
    /\ risk_metrics.last[1] = "check_drawdown_limit"
    /\ risk_metrics.last[2] = TRUE
    /\ risk_metrics.drawdown_history # <<>>
    /\ FracLess(Whole(0), risk_metrics.max_drawdown)
    /\ risk_manager.current_capital < risk_manager.peak_capital
    /\ direct_updates > 0

(* --------------------------- float arithmetic -------------------------- *)
\* Python floats round every operation to the nearest value with a fixed number
\* of significant bits, ties to the even significand.  The rule is kept, with a
\* significand of MantissaBits bits (binary64 has 53); a float is the exact
\* fraction it stands for.
MantissaBits == 8

RECURSIVE Pow2(_)
Pow2(k) == IF k = 0 THEN 1 ELSE 2 * Pow2(k - 1)

FracAdd(a, b) == Frac(a.num * b.den + b.num * a.den, a.den * b.den)

FracDiv(a, b) == Frac(a.num * b.den, a.den * b.num)

FracAbs(a) == [num |-> Abs(a.num), den |-> a.den]

FracLeq(a, b) == ~FracLess(b, a)

\* q / 2^e
Scaled(q, e) == IF e >= 0 THEN Frac(q.num, q.den * Pow2(e)) ELSE Frac(q.num * Pow2(0 - e), q.den)

\* the exponent e of a positive q: 2^(MantissaBits-1) <= q / 2^e < 2^MantissaBits
RECURSIVE ExponentFrom(_, _)
ExponentFrom(q, e) ==
    IF FracLeq(Whole(Pow2(MantissaBits)), Scaled(q, e)) THEN ExponentFrom(q, e + 1)
    ELSE IF FracLess(Scaled(q, e), Whole(Pow2(MantissaBits - 1))) THEN ExponentFrom(q, e - 1)
    ELSE e

Exponent(q) == ExponentFrom(q, 0)

\* the integer nearest to x >= 0, ties to even
NearestEven(x) ==
    LET m == x.num \div x.den
        r == x.num % x.den
    IN IF 2 * r > x.den \/ (2 * r = x.den /\ m % 2 = 1) THEN m + 1 ELSE m

RoundPositive(q) == Scaled(Whole(NearestEven(Scaled(q, Exponent(q)))), 0 - Exponent(q))

\* the float nearest to the exact value q
Round(q) ==
    IF q.num = 0 THEN q
    ELSE IF q.num > 0 THEN RoundPositive(q)
    ELSE FracSub(Whole(0), RoundPositive(FracAbs(q)))

\* the spacing of the floats at q (q # 0)
Ulp(q) == Scaled(Whole(1), 0 - Exponent(FracAbs(q)))

fadd(a, b) == Round(FracAdd(a, b))
fsub(a, b) == Round(FracSub(a, b))
fmul(a, b) == Round(FracMul(a, b))
fdiv(a, b) == Round(FracDiv(a, b))

(* ------------- MarketMakingStrategy._calculate_order_prices ------------ *)
MaxOrderCount == 3      \* the largest order_count a call is made with
MidPrices == {Whole(100), Whole(50), Whole(3), Frac(7, 4)}
Spreads == {Whole(1), Whole(2), Whole(5), Whole(10)}        \* percent

\* spread_factor = 1 + i * 0.5
spread_factor(i) == fadd(Whole(1), fmul(Whole(i), Frac(1, 2)))

\* bid_price = mid_price * (1 - bid_spread / 100), bid_spread = spread_bid * spread_factor
bid_price(mid_price, spread_bid, i) ==
    fmul(mid_price, fsub(Whole(1), fdiv(fmul(spread_bid, spread_factor(i)), Whole(100))))

\* an ask computed with the sign of the bid
AskBelowMid(mid_price, spread_ask, i) ==
    fmul(mid_price, fsub(Whole(1), fdiv(fmul(spread_ask, spread_factor(i)), Whole(100))))

\* ask_price = mid_price * (1 + ask_spread / 100), ask_spread = spread_ask * spread_factor
ask_price(mid_price, spread_ask, i) ==
    fmul(mid_price, fadd(Whole(1), fdiv(fmul(spread_ask, spread_factor(i)), Whole(100))))

\* the two lists, index i of the code at position i + 1
_calculate_order_prices(mid_price, spread_bid, spread_ask, order_count) ==
    [bid_prices |-> [k \in 1..order_count |-> bid_price(mid_price, spread_bid, k - 1)],
     ask_prices |-> [k \in 1..order_count |-> ask_price(mid_price, spread_ask, k - 1)]]

LadderCalls ==
    [fn : {"_calculate_order_prices"}, mid_price : MidPrices, spread_bid : Spreads,
     spread_ask : Spreads, order_count : 1..MaxOrderCount, returned : {FALSE},
     result : {[bid_prices |-> <<>>, ask_prices |-> <<>>]}]

InitLadder ==
    /\ Constructed
    /\ pure_call \in LadderCalls

CalculateOrderPrices ==
    /\ pure_call.fn = "_calculate_order_prices"
    /\ ~pure_call.returned
    /\ pure_call' = [pure_call EXCEPT
            !.returned = TRUE,
            !.result = _calculate_order_prices(pure_call.mid_price, pure_call.spread_bid,
                                               pure_call.spread_ask, pure_call.order_count)]
    /\ UNCHANGED <<executor_vars, lock_vars, engine_vars, risk_calls, risk_metrics,
                   arbitrage, market_maker, adaptive>>

NextLadder == CalculateOrderPrices

SpecLadder == InitLadder /\ [][NextLadder]_vars

LadderReturned == pure_call.fn = "_calculate_order_prices" /\ pure_call.returned

\* mid - bid_i and ask_i - mid, as exact differences of the prices returned
BidOffset(k) == FracSub(pure_call.mid_price, pure_call.result.bid_prices[k])
AskOffset(k) == FracSub(pure_call.result.ask_prices[k], pure_call.mid_price)

CurrentSpreads == {Whole(0 - 3), Frac(0 - 3, 2), Whole(0), Whole(2), Frac(5, 2), Whole(100)}
SpreadMeans == {Whole(0), Frac(1, 4), Whole(1)}
SpreadStds == {Whole(0), Frac(1, 2), Whole(1), Whole(3)}

\* self.pair_models.get(pair_id): None, or the fitted model of the pair
NoModel == [fitted |-> FALSE, spread_mean |-> Whole(0), spread_std |-> Whole(0)]
PairModels ==
    {NoModel} \cup [fitted : {TRUE}, spread_mean : SpreadMeans, spread_std : SpreadStds]

\* a z-score that leaves the mean out
IgnoresMean(current_spread, model) ==
    IF ~model.fitted THEN Whole(0)
    ELSE IF model.spread_std = Whole(0) THEN Whole(0)
    ELSE fdiv(current_spread, model.spread_std)

_calculate_z_score(current_spread, model) ==
    IF ~model.fitted THEN Whole(0)
    ELSE IF model.spread_std = Whole(0) THEN Whole(0)
    ELSE fdiv(fsub(current_spread, model.spread_mean), model.spread_std)

ZScoreCalls ==
    [fn : {"_calculate_z_score"}, current_spread : CurrentSpreads, model : PairModels,
     returned : {FALSE}, result : {Whole(0)}]

InitZScore ==
    /\ Constructed
    /\ pure_call \in ZScoreCalls

CalculateZScore ==
    /\ pure_call.fn = "_calculate_z_score"
    /\ ~pure_call.returned
    /\ pure_call' = [pure_call EXCEPT
            !.returned = TRUE,
            !.result = _calculate_z_score(pure_call.current_spread, pure_call.model)]
    /\ UNCHANGED <<executor_vars, lock_vars, engine_vars, risk_calls, risk_metrics,
                   arbitrage, market_maker, adaptive>>

NextZScore == CalculateZScore

SpecZScore == InitZScore /\ [][NextZScore]_vars

ZScoreReturned == pure_call.fn = "_calculate_z_score" /\ pure_call.returned

\* (current_spread - spread_mean) / spread_std in exact arithmetic
ExactZScore ==
    FracDiv(FracSub(pure_call.current_spread, pure_call.model.spread_mean),
            pure_call.model.spread_std)

\* C24: the z-score returned is (current_spread - spread_mean) / spread_std, to
\* within the rounding of its two operations (two units in the last place) and
\* exactly that value when mean is 0 and std is 1, so that spread 2.0 has z-score
\* 2.0; it is exactly 0 whenever spread_std is 0
C24_ZScoreIsStandardised ==
    ZScoreReturned /\ pure_call.model.fitted =>
        IF pure_call.model.spread_std = Whole(0) THEN pure_call.result = Whole(0)
        ELSE /\ ExactZScore = Whole(0) => pure_call.result = Whole(0)
             /\ ExactZScore # Whole(0) =>
                   FracLeq(FracAbs(FracSub(pure_call.result, ExactZScore)),
                           FracMul(Whole(2), Ulp(ExactZScore)))
             /\ pure_call.model.spread_mean = Whole(0) /\ pure_call.model.spread_std = Whole(1)
                   => pure_call.result = pure_call.current_spread

\* the call of the test: mean 0, std 1, spread 2.0 gives 2.0
C24_SpreadTwoScoresTwo ==
    /\ ZScoreReturned
    /\ pure_call.model = [fitted |-> TRUE, spread_mean |-> Whole(0), spread_std |-> Whole(1)]
    /\ pure_call.current_spread = Whole(2)
    /\ pure_call.result = Whole(2)

(* ------------------ StatisticalArbitrageStrategy.update ---------------- *)
\* update() runs _check_arbitrage_opportunities and then _manage_positions; each
\* is followed pair by pair, every pair with the ticker read at its turn.  The
\* models are those fitted by initialize(): _update_models refits a model only
\* 24 hours after its last update.
z_score_threshold == 2
max_positions == 2
stop_loss_pct == Round(Frac(5, 100))        \* 0.05 as a float

\* the fitted model of every pair: asset2 = slope * asset1 + intercept + spread
FittedModel == [fitted |-> TRUE, slope |-> Whole(1), intercept |-> Whole(0),
                spread_mean |-> Whole(0), spread_std |-> Whole(1)]

\* what get_ticker returns for the two assets of a pair; NoTicker: a price is None
NoTicker == [asset1_price |-> Whole(0), asset2_price |-> Whole(0)]
Tickers ==
    {NoTicker} \cup
    [asset1_price : {Whole(10)},
     asset2_price : {Whole(6), Whole(7), Whole(8), Frac(17, 2), Whole(10), Frac(23, 2),
                     Whole(12), Whole(13), Whole(14)}]

\* current_spread = asset2_price - (model["slope"] * asset1_price + model["intercept"])
current_spread(ticker, model) ==
    fsub(ticker.asset2_price, fadd(fmul(model.slope, ticker.asset1_price), model.intercept))

\* the z-score a step computes from the ticker it read
ZScoreOf(ticker) == _calculate_z_score(current_spread(ticker, FittedModel), FittedModel)

Reading(pair, ticker) ==
    IF ticker = NoTicker THEN [NoReading EXCEPT !.pair = pair]
    ELSE [pair |-> pair, available |-> TRUE, z_score |-> ZScoreOf(ticker)]

FracNeg(a) == [num |-> 0 - a.num, den |-> a.den]

\* a signal with the two directions exchanged
LongAboveThreshold(z_score) ==
    IF FracLess(Whole(z_score_threshold), z_score) THEN "long"
    ELSE IF FracLess(z_score, FracNeg(Whole(z_score_threshold))) THEN "short"
    ELSE "none"

\* if z_score > self.z_score_threshold: short; elif z_score < -self.z_score_threshold: long
SignalDirection(z_score) ==
    IF FracLess(Whole(z_score_threshold), z_score) THEN "short"
    ELSE IF FracLess(z_score, FracNeg(Whole(z_score_threshold))) THEN "long"
    ELSE "none"

\* "stop_loss_z_score": z_score * (1 + self.stop_loss_pct * (1 if direction == "long" else -1))
StopLossZScore(z_score, direction) ==
    fmul(z_score, fadd(Whole(1), fmul(stop_loss_pct,
                                      IF direction = "long" THEN Whole(1) ELSE Whole(0 - 1))))

OpenCount(arb) == Cardinality(DOMAIN arb.active_positions)

\* a strategy that never finds a pair among its active positions
NeverHeld(arb, pair) == FALSE

\* pair_id in self.active_positions
HasPosition(arb, pair) == pair \in DOMAIN arb.active_positions

\* _open_arbitrage_position: nothing at max_positions; else both orders are
\* created and the position is stored under the pair id
_open_arbitrage_position(arb, pair, direction, z_score) ==
    IF OpenCount(arb) >= max_positions THEN arb
    ELSE LET position == [direction |-> direction, entry_z_score |-> z_score,
                          target_z_score |-> Whole(0),
                          stop_loss_z_score |-> StopLossZScore(z_score, direction)]
         IN [arb EXCEPT
                !.active_positions = [q \in DOMAIN arb.active_positions \cup {pair} |->
                                         IF q = pair THEN position
                                         ELSE arb.active_positions[q]],
                !.exposures[pair] = @ + 1]

\* the body of the loop of _check_arbitrage_opportunities for one pair
CheckOpportunity(arb, pair, ticker) ==
    IF HasPosition(arb, pair) THEN arb
    ELSE IF ticker = NoTicker THEN arb
    ELSE IF SignalDirection(ZScoreOf(ticker)) = "none" THEN arb
    ELSE _open_arbitrage_position(arb, pair, SignalDirection(ZScoreOf(ticker)),
                                  ZScoreOf(ticker))

\* a position that is closed at its target only
ClosesAtTargetOnly(position, current_z_score) ==
    IF position.direction = "long"
    THEN FracLeq(position.target_z_score, current_z_score)
    ELSE FracLeq(current_z_score, position.target_z_score)

\* the closing conditions of _manage_positions
ShouldClose(position, current_z_score) ==
    IF position.direction = "long"
    THEN \/ FracLeq(position.target_z_score, current_z_score)
         \/ FracLeq(current_z_score, position.stop_loss_z_score)
    ELSE \/ FracLeq(current_z_score, position.target_z_score)
         \/ FracLeq(position.stop_loss_z_score, current_z_score)

\* _close_position: the closing orders are created and the entry is deleted
_close_position(arb, pair) ==
    IF pair \notin DOMAIN arb.active_positions THEN arb
    ELSE [arb EXCEPT
             !.active_positions = [q \in DOMAIN arb.active_positions \ {pair} |->
                                      arb.active_positions[q]],
             !.exposures[pair] = @ - 1]

RECURSIVE ClosePairs(_, _)
ClosePairs(arb, i) ==
    IF i > Len(pairs) THEN arb
    ELSE ClosePairs(IF pairs[i] \in arb.positions_to_close
                    THEN _close_position(arb, pairs[i]) ELSE arb, i + 1)

\* the index of the first pair after i that has an active position, 0 if none:
\* _manage_positions visits the active positions only
NextManaged(arb, i) ==
    IF \E j \in (i + 1)..Len(pairs) : pairs[j] \in DOMAIN arb.active_positions
    THEN CHOOSE j \in (i + 1)..Len(pairs) :
            /\ pairs[j] \in DOMAIN arb.active_positions
            /\ \A k \in (i + 1)..(j - 1) : pairs[k] \notin DOMAIN arb.active_positions
    ELSE 0

\* where update() goes on once _check_arbitrage_opportunities is over:
\* _manage_positions starts with positions_to_close = []
ToManage(arb) ==
    [arb EXCEPT !.positions_to_close = {},
                !.at = IF NextManaged(arb, 0) = 0 THEN [step |-> "close", index |-> 0]
                       ELSE [step |-> "manage", index |-> NextManaged(arb, 0)]]

ArbitrageUnchanged ==
    UNCHANGED <<executor_vars, lock_vars, engine_vars, risk_calls, risk_metrics,
                pure_call, market_maker, adaptive>>

\* update() is called: _check_arbitrage_opportunities returns at once at max_positions
ArbitrageUpdate ==
    /\ arbitrage.at.step = "idle"
    /\ arbitrage' = IF OpenCount(arbitrage) >= max_positions
                    THEN ToManage([arbitrage EXCEPT !.reading = NoReading])
                    ELSE [arbitrage EXCEPT !.reading = NoReading,
                                           !.at = [step |-> "signal", index |-> 1]]
    /\ ArbitrageUnchanged

\* one pass of the loop of _check_arbitrage_opportunities
CheckPair(ticker) ==
    LET i == arbitrage.at.index
        after == CheckOpportunity(arbitrage, pairs[i], ticker)
        read == [after EXCEPT !.reading = IF HasPosition(arbitrage, pairs[i])
                                          THEN [NoReading EXCEPT !.pair = pairs[i]]
                                          ELSE Reading(pairs[i], ticker)]
    IN /\ arbitrage.at.step = "signal"
       /\ arbitrage' = IF i < Len(pairs) THEN [read EXCEPT !.at.index = i + 1]
                       ELSE ToManage(read)
       /\ ArbitrageUnchanged

\* one pass of the first loop of _manage_positions
ManagePair(ticker) ==
    LET i == arbitrage.at.index
        pair == pairs[i]
        position == arbitrage.active_positions[pair]
        next == NextManaged(arbitrage, i)
    IN /\ arbitrage.at.step = "manage"
       /\ arbitrage' =
            [arbitrage EXCEPT
                !.reading = Reading(pair, ticker),
                !.positions_to_close =
                    IF ticker # NoTicker /\ ShouldClose(position, ZScoreOf(ticker))
                    THEN @ \cup {pair} ELSE @,
                !.at = IF next = 0 THEN [step |-> "close", index |-> 0]
                       ELSE [step |-> "manage", index |-> next]]
       /\ ArbitrageUnchanged

\* the second loop of _manage_positions: _close_position for every pair marked
ClosePositions ==
    /\ arbitrage.at.step = "close"
    /\ arbitrage' = [ClosePairs(arbitrage, 1) EXCEPT !.at = [step |-> "idle", index |-> 0]]
    /\ ArbitrageUnchanged

NextArbitrage ==
    \/ ArbitrageUpdate
    \/ \E ticker \in Tickers : CheckPair(ticker)
    \/ \E ticker \in Tickers : ManagePair(ticker)
    \/ ClosePositions

SpecArbitrage == Init /\ [][NextArbitrage]_vars

C28_OnePositionPerPairAtMostMax ==
    /\ OpenCount(arbitrage) <= max_positions
    /\ \A pair \in Pairs :
          arbitrage.exposures[pair] = IF pair \in DOMAIN arbitrage.active_positions THEN 1 ELSE 0

\* max_positions positions are open and a third pair, read with a z-score
\* beyond the threshold, was given none
C28_SignalRefusedAtMax ==
    /\ OpenCount(arbitrage) = max_positions
    /\ arbitrage.reading.available
    /\ SignalDirection(arbitrage.reading.z_score) # "none"
    /\ arbitrage.reading.pair \notin DOMAIN arbitrage.active_positions
    /\ arbitrage.at.step \in {"signal", "manage", "close"}
    /\ arbitrage.positions_to_close = {}

(* --------------------- MarketMakingStrategy.execute -------------------- *)
\* One pass of the loop of execute() over a symbol.  The executor and the
\* market are the environment: which cancel_order call fails for good, whether
\* place_order returns an order, what mid price the order book gives.
MaxCycles == 2          \* passes of execute() followed in one behaviour
order_size == 1
order_count == 2
spread == Whole(1)      \* spread_bid = spread_ask, in percent
price_threshold == Round(Frac(1, 10))       \* 0.1 as a float

\* market_data of _get_market_data: its mid_price; NoMarket: None
NoMarket == Whole(0)
Markets == {NoMarket, Whole(50), Whole(100)}

\* the cancel_order calls of a loop over orders.  cancel_order retries a failing
\* request without counting (its except clause calls cancel_order again while
\* retry_attempts > 0, which never changes): it returns True, or it ends in
\* RecursionError when the request keeps failing, as it does for the orders in
\* `failing`.  The loop issues a call for every order up to the first that raises.
CancelLoop(orders, failing) ==
    LET Raises(k) == orders[k].id \in failing
        raised == \E k \in 1..Len(orders) : Raises(k)
        last == IF raised
                THEN CHOOSE k \in 1..Len(orders) :
                        Raises(k) /\ \A j \in 1..(k - 1) : ~Raises(j)
                ELSE Len(orders)
    IN [issued |-> {orders[k].id : k \in 1..last}, raised |-> raised]

\* _cancel_all_orders: the reset of the working set is inside the try block,
\* after the two loops
_cancel_all_orders(working, failing) ==
    IF ~working.present THEN [working |-> working, issued |-> {}]
    ELSE LET loop == CancelLoop(working.buy \o working.sell, failing)
         IN [working |-> IF loop.raised THEN working
                         ELSE [working EXCEPT !.buy = <<>>, !.sell = <<>>],
             issued |-> loop.issued]

_cancel_orders_by_side(working, side, failing) ==
    IF ~working.present THEN [working |-> working, issued |-> {}]
    ELSE LET loop == CancelLoop(working[side], failing)
         IN [working |-> IF loop.raised THEN working
                         ELSE [working EXCEPT ![side] = <<>>],
             issued |-> loop.issued]

\* abs(old_price - new_price) / old_price * 100 > price_threshold
PriceMoved(old_price, new_price) ==
    FracLess(price_threshold,
             fmul(fdiv(FracAbs(fsub(old_price, new_price)), old_price), Whole(100)))

\* {"buy": [], "sell": []} is a non-empty dict: only a missing entry counts as
\* no active orders
_should_refresh_orders(working, order_prices) ==
    \/ ~working.present
    \/ Len(working.buy) # Len(order_prices.bid_prices)
    \/ Len(working.sell) # Len(order_prices.ask_prices)
    \/ \E k \in 1..Len(working.buy) :
          PriceMoved(working.buy[k].price, order_prices.bid_prices[k])
    \/ \E k \in 1..Len(working.sell) :
          PriceMoved(working.sell[k].price, order_prices.ask_prices[k])

\* the orders a loop of _place_orders appends: none once check_position_limit
\* refuses, none when place_order returns None
PlacedOrders(side, prices, first_id, accepts) ==
    IF accepts /\ check_position_limit(risk_manager, symbols[1], side, order_size)
    THEN [k \in 1..Len(prices) |-> [id |-> first_id + k - 1, price |-> prices[k]]]
    ELSE <<>>

\* the side execute() cancels at max_position
LimitedSide(current_position) == IF current_position > 0 THEN "buy" ELSE "sell"

\* _place_orders: buys for bid_prices, then sells for ask_prices; execute() calls
\* it with both ladders whatever the position
_place_orders(working, order_prices, first_id, accepts) ==
    LET buys == PlacedOrders("buy", order_prices.bid_prices, first_id, accepts)
        sells == PlacedOrders("sell", order_prices.ask_prices, first_id + Len(buys), accepts)
    IN [working |-> [present |-> TRUE, buy |-> working.buy \o buys,
                     sell |-> working.sell \o sells],
        placed |-> (IF buys # <<>> THEN {"buy"} ELSE {})
                   \cup (IF sells # <<>> THEN {"sell"} ELSE {}),
        count |-> Len(buys) + Len(sells)]

\* the body of the loop of execute() for a symbol
ExecuteSymbol(mm, symbol, due, manipulation, market, failing, accepts) ==
    LET working == mm.active_orders[symbol]
        Done(after, cancels, placed, count) ==
            [mm EXCEPT !.active_orders[symbol] = after,
                       !.next_id = @ + count,
                       !.cycles = @ + 1,
                       !.cycle = [symbol |-> symbol, due |-> due,
                                  manipulation |-> due /\ manipulation,
                                  available |-> due /\ ~manipulation /\ market # NoMarket,
                                  market |-> market,
                                  cancels |-> cancels, placed |-> placed]]
    IN IF ~due THEN Done(working, {}, {}, 0)
       ELSE IF manipulation
       THEN LET all == _cancel_all_orders(working, failing)
            IN Done(all.working, all.issued, {}, 0)
       ELSE IF market = NoMarket THEN Done(working, {}, {}, 0)
       ELSE LET order_prices == _calculate_order_prices(market, spread, spread, order_count)
                current_position == mm.positions[symbol]
                limited == Abs(current_position) >= mm.max_position
                side == IF limited
                        THEN _cancel_orders_by_side(working, LimitedSide(current_position),
                                                    failing)
                        ELSE [working |-> working, issued |-> {}]
                all == IF _should_refresh_orders(side.working, order_prices)
                       THEN _cancel_all_orders(side.working, failing)
                       ELSE [working |-> side.working, issued |-> {}]
                new == _place_orders(all.working, order_prices, mm.next_id, accepts)
            IN Done(new.working, side.issued \cup all.issued, new.placed, new.count)

MakerUnchanged ==
    UNCHANGED <<executor_vars, lock_vars, engine_vars, risk_calls, risk_metrics,
                pure_call, arbitrage, adaptive>>

WorkingIds(working) ==
    {working.buy[k].id : k \in 1..Len(working.buy)}
        \cup {working.sell[k].id : k \in 1..Len(working.sell)}

\* at most one order of the working set is one whose cancel_order call raises
Execute(symbol, due, manipulation, market, accepts) ==
    /\ market_maker.cycles < MaxCycles
    /\ \E failing \in {{}} \cup {{id} : id \in WorkingIds(market_maker.active_orders[symbol])} :
          market_maker' = ExecuteSymbol(market_maker, symbol, due, manipulation, market,
                                        failing, accepts)
    /\ MakerUnchanged

\* update_parameters({"max_position": value})
SetMaxPosition(value) ==
    /\ market_maker.max_position # value
    /\ market_maker' = [market_maker EXCEPT !.max_position = value]
    /\ MakerUnchanged

\* self.positions[symbol] is assigned: no method of the class writes it, the
\* owner of the strategy does
PositionReported(symbol, position) ==
    /\ market_maker.positions[symbol] # position
    /\ market_maker' = [market_maker EXCEPT !.positions[symbol] = position]
    /\ MakerUnchanged

NextMaker ==
    \/ \E symbol \in SeqRange(symbols), due \in BOOLEAN, manipulation \in BOOLEAN,
          market \in Markets, accepts \in BOOLEAN :
          Execute(symbol, due, manipulation, market, accepts)
    \/ \E value \in 0..1 : SetMaxPosition(value)
    \/ \E symbol \in SeqRange(symbols), position \in (0 - 1)..1 :
          PositionReported(symbol, position)

SpecMaker == Init /\ [][NextMaker]_vars

\* a pass of execute() over a symbol that was due
CycleRan == market_maker'.cycles = market_maker.cycles + 1 /\ market_maker'.cycle.due

\* C29: a cycle for a due symbol with manipulation reported issues a cancel for
\* every order of the symbol's working set, ends with the working set empty and
\* places no order for the symbol
C29_ManipulationClearsWorkingSet ==
    [][CycleRan /\ market_maker'.cycle.manipulation =>
          LET symbol == market_maker'.cycle.symbol
          IN /\ WorkingIds(market_maker.active_orders[symbol])
                    \subseteq market_maker'.cycle.cancels
             /\ WorkingIds(market_maker'.active_orders[symbol]) = {}
             /\ market_maker'.cycle.placed = {}]_vars

\* C30: a cycle for a due symbol whose position is at max_position or beyond
\* (long or short) issues a cancel for the working orders of the side that
\* would increase the exposure (buy when long, sell when short) and places no
\* new order on that side
C30_NoOrderOnLimitedSide ==
    [][/\ CycleRan /\ market_maker'.cycle.available
       /\ market_maker.positions[market_maker'.cycle.symbol] # 0
       /\ Abs(market_maker.positions[market_maker'.cycle.symbol]) >= market_maker.max_position
       => LET symbol == market_maker'.cycle.symbol
              side == IF market_maker.positions[symbol] > 0 THEN "buy" ELSE "sell"
              orders == market_maker.active_orders[symbol][side]
          IN /\ {orders[k].id : k \in 1..Len(orders)} \subseteq market_maker'.cycle.cancels
             /\ side \notin market_maker'.cycle.placed]_vars

\* the new ladder of a cycle that read the mid price `market`
NewLadder(market) == _calculate_order_prices(market, spread, spread, order_count)

\* the working orders of a side match the ladder: as many orders as rungs, and
\* no price further than price_threshold percent from its rung
SideMatches(orders, prices) ==
    /\ Len(orders) = Len(prices)
    /\ \A k \in 1..Len(orders) : ~PriceMoved(orders[k].price, prices[k])

\* C31: a cycle whose refresh decision is negative (each side of the working
\* set has as many orders as the new ladder has rungs and no matched price
\* moved by more than the threshold) cancels no order and places no order for
\* the symbol
C31_NoRefreshNoOrders ==
    [][CycleRan /\ market_maker'.cycle.available =>
          LET symbol == market_maker'.cycle.symbol
              working == market_maker.active_orders[symbol]
              ladder == NewLadder(market_maker'.cycle.market)
          IN /\ working.present
             /\ Abs(market_maker.positions[symbol]) < market_maker.max_position
             /\ SideMatches(working.buy, ladder.bid_prices)
             /\ SideMatches(working.sell, ladder.ask_prices)
             => /\ market_maker'.cycle.cancels = {}
                /\ market_maker'.cycle.placed = {}
                /\ market_maker'.active_orders[symbol] = working]_vars

\* C40: after every cycle the working set of a symbol holds at most order_count
\* buy orders and at most order_count sell orders
C40_WorkingSetWithinLadder ==
    \A symbol \in SeqRange(symbols) :
        /\ Len(market_maker.active_orders[symbol].buy) <= order_count
        /\ Len(market_maker.active_orders[symbol].sell) <= order_count

(* ------------- AdaptiveMarketMakingStrategy: the multipliers -------------- *)
\* The adaptation factors and limits of __init__, as configured.  The three
\* exponents are 1.0: x ** 1.0 is x and x ** -1.0 is 1 / x.
volatility_factor == 1
volume_factor == 1
liquidity_factor == 1
trend_factor == Frac(1, 2)
mean_reversion_factor == Frac(1, 2)
max_spread_multiplier == Whole(3)
min_spread_multiplier == Frac(1, 2)
max_size_multiplier == Whole(2)
min_size_multiplier == Frac(1, 2)

\* x ** exponent for the exponents 1.0 and -1.0
power(x, exponent) == IF exponent = 1 THEN x ELSE fdiv(Whole(1), x)

\* np.clip(x, lo, hi)
clip(x, lo, hi) == IF FracLess(x, lo) THEN lo ELSE IF FracLess(hi, x) THEN hi ELSE x

trend_multiplier(conditions) ==
    fadd(Whole(1), fmul(FracAbs(conditions.trend_strength), trend_factor))

mean_reversion_multiplier(conditions) ==
    fadd(Whole(1), fmul(FracAbs(conditions.mean_reversion), mean_reversion_factor))

\* the product of the four factors, clipped at the end only
ClipsProductOnly(conditions) ==
    clip(fmul(fmul(fmul(power(conditions.volatility, volatility_factor),
                        power(conditions.liquidity, 0 - liquidity_factor)),
                   trend_multiplier(conditions)),
              mean_reversion_multiplier(conditions)),
         min_spread_multiplier, max_spread_multiplier)

\* _adapt_parameters: the volatility and the liquidity multiplier are clipped
\* to the spread limits on their own, the product of the four is clipped again
final_spread_multiplier(conditions) ==
    LET volatility_multiplier ==
            clip(power(conditions.volatility, volatility_factor),
                 min_spread_multiplier, max_spread_multiplier)
        liquidity_multiplier ==
            clip(power(conditions.liquidity, 0 - liquidity_factor),
                 min_spread_multiplier, max_spread_multiplier)
    IN clip(fmul(fmul(fmul(volatility_multiplier, liquidity_multiplier),
                      trend_multiplier(conditions)),
                 mean_reversion_multiplier(conditions)),
            min_spread_multiplier, max_spread_multiplier)

\* _adapt_parameters: the volume multiplier, clipped twice to the size limits
final_size_multiplier(conditions) ==
    clip(clip(power(conditions.volume_ratio, volume_factor),
              min_size_multiplier, max_size_multiplier),
         min_size_multiplier, max_size_multiplier)

\* the market-conditions vectors a call is made with
VolatilityReadings == {Frac(1, 2), Whole(1), Frac(3, 2), Whole(4)}
LiquidityReadings == {Frac(1, 4), Whole(1), Whole(3), Whole(4)}
TrendReadings == {Whole(0 - 1), Whole(0), Frac(1, 2)}
MeanReversionReadings == {Frac(0 - 1, 2), Whole(0), Whole(1)}

MultiplierCalls ==
    [fn : {"final_spread_multiplier"}, volatility : VolatilityReadings,
     liquidity : LiquidityReadings, trend_strength : TrendReadings,
     mean_reversion : MeanReversionReadings, returned : {FALSE}, result : {Whole(0)}]

InitMultiplier ==
    /\ Constructed
    /\ pure_call \in MultiplierCalls

SpreadMultiplier ==
    /\ pure_call.fn = "final_spread_multiplier"
    /\ ~pure_call.returned
    /\ pure_call' = [pure_call EXCEPT !.returned = TRUE,
                                      !.result = final_spread_multiplier(pure_call)]
    /\ UNCHANGED <<executor_vars, lock_vars, engine_vars, risk_calls, risk_metrics,
                   arbitrage, market_maker, adaptive>>

NextMultiplier == SpreadMultiplier

SpecMultiplier == InitMultiplier /\ [][NextMultiplier]_vars

MultiplierReturned == pure_call.fn = "final_spread_multiplier" /\ pure_call.returned

\* the clip of the reals
ExactClip(x, lo, hi) == IF FracLess(x, lo) THEN lo ELSE IF FracLess(hi, x) THEN hi ELSE x

\* the four factors of the formula as real numbers
ExactVolatility == pure_call.volatility
ExactLiquidity == FracDiv(Whole(1), pure_call.liquidity)
ExactTrend == FracAdd(Whole(1), FracMul(FracAbs(pure_call.trend_strength), Frac(1, 2)))
ExactMeanReversion ==
    FracAdd(Whole(1), FracMul(FracAbs(pure_call.mean_reversion), Frac(1, 2)))

\* the float returned is the real value up to the rounding of the operations:
\* at most 8 units of the last place of the mantissa
UpToRounding(returned, exact) ==
    FracLeq(FracAbs(FracSub(returned, exact)),
            FracMul(FracAbs(exact), Frac(8, Pow2(MantissaBits))))

\* C34 as stated: the spread multiplier is the product of the four factors,
\* clipped once to [min_spread_multiplier, max_spread_multiplier]
C34_ClipOnceOnProduct ==
    MultiplierReturned =>
        UpToRounding(pure_call.result,
                     ExactClip(FracMul(FracMul(FracMul(ExactVolatility, ExactLiquidity),
                                               ExactTrend), ExactMeanReversion),
                               Frac(1, 2), Whole(3)))

\* C34: the spread multiplier is the product of the volatility factor clipped
\* to [min_spread_multiplier, max_spread_multiplier], the liquidity factor
\* clipped to the same limits, the trend factor and the mean reversion factor,
\* clipped again to the same limits, up to the rounding of the float operations
C34_ClipOnFactorsAndProduct ==
    MultiplierReturned =>
        UpToRounding(pure_call.result,
                     ExactClip(FracMul(FracMul(FracMul(
                                   ExactClip(ExactVolatility, Frac(1, 2), Whole(3)),
                                   ExactClip(ExactLiquidity, Frac(1, 2), Whole(3))),
                                   ExactTrend), ExactMeanReversion),
                               Frac(1, 2), Whole(3)))

\* a call where both factors are clipped on their own and the product is not:
\* volatility 4 counts as 3, liquidity 4 as 1/2
C34_FactorsClippedProductNot ==
    /\ MultiplierReturned
    /\ FracLess(Whole(3), ExactVolatility)
    /\ FracLess(ExactLiquidity, Frac(1, 2))
    /\ FracLess(Frac(1, 2), pure_call.result)
    /\ FracLess(pure_call.result, Whole(3))

(* ------------- AdaptiveMarketMakingStrategy: a pass of execute ------------ *)
MaxPasses == 2          \* passes of the adaptive execute() followed in one behaviour

\* the readings of time.time() at the start of a pass, in seconds, and the
\* seconds that pass between that reading and the one of the parent's execute()
Times == {100, 101, 110, 120}
Elapsed == {0, 1}

\* what _analyze_market_conditions leaves in self.market_conditions[symbol]
CalmMarket ==
    [known |-> TRUE, volatility |-> Whole(1), volume_ratio |-> Whole(1),
     trend_strength |-> Whole(0), liquidity |-> Whole(1), mean_reversion |-> Whole(0)]
VolatileMarket ==
    [known |-> TRUE, volatility |-> Whole(4), volume_ratio |-> Whole(3),
     trend_strength |-> Frac(1, 2), liquidity |-> Frac(1, 4), mean_reversion |-> Whole(0)]
QuietMarket ==
    [known |-> TRUE, volatility |-> Frac(1, 2), volume_ratio |-> Frac(1, 4),
     trend_strength |-> Whole(0), liquidity |-> Whole(4), mean_reversion |-> Whole(0)]
MarketConditions == {CalmMarket, VolatileMarket, QuietMarket}

Largest(a, b) == IF a > b THEN a ELSE b
Smallest(a, b) == IF a < b THEN a ELSE b

\* _adapt_parameters: base_params is get_parameters(), the parameters as the
\* last update_parameters left them; int(x * 0.5), int(x * 1.5), int(x * 0.7)
\* and int(x * 1.3) are the integer quotients for the values of the model
_adapt_parameters(self, symbol) ==
    LET conditions == self.market_conditions[symbol]
        base_params == self
        spread_multiplier == final_spread_multiplier(conditions)
        size_multiplier == final_size_multiplier(conditions)
        count ==
            IF FracLess(conditions.liquidity, Frac(1, 2))
            THEN Largest(1, base_params.order_count \div 2)
            ELSE IF FracLess(Whole(2), conditions.liquidity)
            THEN Smallest(10, (base_params.order_count * 3) \div 2)
            ELSE base_params.order_count
        rate ==
            IF FracLess(Frac(3, 2), conditions.volatility)
            THEN Largest(1, (base_params.refresh_rate * 7) \div 10)
            ELSE IF FracLess(conditions.volatility, Frac(7, 10))
            THEN Smallest(30, (base_params.refresh_rate * 13) \div 10)
            ELSE base_params.refresh_rate
    IN IF ~conditions.known THEN self
       ELSE [self EXCEPT
                !.spread_bid = fmul(base_params.spread_bid, spread_multiplier),
                !.spread_ask = fmul(base_params.spread_ask, spread_multiplier),
                !.order_size = fmul(base_params.order_size, size_multiplier),
                !.order_count = count,
                !.refresh_rate = rate,
                !.spread_multiplier = spread_multiplier,
                !.size_multiplier = size_multiplier]

AdaptiveUnchanged ==
    UNCHANGED <<executor_vars, lock_vars, engine_vars, risk_calls, risk_metrics,
                pure_call, arbitrage>>

\* The body of the loop of the adaptive execute() for a symbol, as far as the
\* call of super().execute(): the refresh test, the stamp of last_refresh_time,
\* the analysis and the adaptation.  super().execute() reads the clock again
\* and makes its own refresh test for the symbol against the stamp just
\* written, with the refresh_rate just adapted.
AdaptivePass(self, symbol, current_time, elapsed, conditions) ==
    LET due == current_time - self.last_refresh_time[symbol] >= self.refresh_rate
        stamped == [self EXCEPT !.last_refresh_time[symbol] = current_time,
                                !.market_conditions[symbol] = conditions]
        adapted == _adapt_parameters(stamped, symbol)
        base_time == current_time + elapsed
        base_due == base_time - current_time >= adapted.refresh_rate
    IN IF ~due
       THEN [self EXCEPT !.clock = current_time,
                         !.passes = @ + 1,
                         !.pass = [symbol |-> symbol, due |-> FALSE, adapted |-> FALSE,
                                   base_due |-> FALSE]]
       ELSE [adapted EXCEPT !.last_refresh_time[symbol] = IF base_due THEN base_time ELSE @,
                            !.clock = base_time,
                            !.passes = @ + 1,
                            !.pass = [symbol |-> symbol, due |-> TRUE, adapted |-> TRUE,
                                      base_due |-> base_due]]

\* a pass of the adaptive execute() over a symbol; the parent's execute() runs
\* only in a pass that got past the refresh test
AdaptiveExecute(symbol, current_time, elapsed, conditions) ==
    /\ adaptive.passes < MaxPasses
    /\ current_time >= adaptive.clock
    /\ adaptive' = AdaptivePass(adaptive, symbol, current_time, elapsed, conditions)
    /\ IF adaptive'.pass.due
       THEN \E manipulation \in BOOLEAN, market \in Markets, accepts \in BOOLEAN,
               failing \in {{}} \cup {{id} : id \in
                                      WorkingIds(market_maker.active_orders[symbol])} :
               market_maker' = ExecuteSymbol(market_maker, symbol, adaptive'.pass.base_due,
                                             manipulation, market, failing, accepts)
       ELSE UNCHANGED market_maker
    /\ AdaptiveUnchanged

NextAdaptive ==
    \E symbol \in SeqRange(symbols), current_time \in Times, elapsed \in Elapsed,
       conditions \in MarketConditions :
       AdaptiveExecute(symbol, current_time, elapsed, conditions)

SpecAdaptive == Init /\ [][NextAdaptive]_vars

\* a pass of the adaptive execute() that found the refresh interval of its
\* symbol elapsed
AdaptivePassDue == adaptive'.passes = adaptive.passes + 1 /\ adaptive'.pass.due

\* C32: in a pass of the adaptive execute() over a symbol whose refresh
\* interval has elapsed, the parameters are adapted and the base cycle runs for
\* that symbol in that pass
C32_BaseCycleRunsInPass ==
    [][AdaptivePassDue =>
          /\ adaptive'.pass.adapted
          /\ market_maker'.cycles = market_maker.cycles + 1
          /\ market_maker'.cycle.symbol = adaptive'.pass.symbol
          /\ market_maker'.cycle.due]_vars

\* C33: after any number of adaptive passes the spreads are the configured
\* spread times the spread multiplier of the last adaptation and the order
\* size is the configured size times its size multiplier, so they lie between
\* the configured value times the smallest and times the largest multiplier
C33_ParametersAreBaseTimesMultiplier ==
    /\ adaptive.spread_bid = fmul(spread, adaptive.spread_multiplier)
    /\ adaptive.spread_ask = fmul(spread, adaptive.spread_multiplier)
    /\ adaptive.order_size = fmul(Whole(order_size), adaptive.size_multiplier)
    /\ FracLeq(FracMul(spread, min_spread_multiplier), adaptive.spread_bid)
    /\ FracLeq(adaptive.spread_bid, FracMul(spread, max_spread_multiplier))
    /\ FracLeq(FracMul(Whole(order_size), min_size_multiplier), adaptive.order_size)
    /\ FracLeq(adaptive.order_size, FracMul(Whole(order_size), max_size_multiplier))

(* ----------------- RiskManager.update_position: algebra ------------------- *)
\* the fills update_position is called with
Fills ==
    [symbol : Symbols, amount : (0 - 1)..MaxAmount, price : Prices \cup {0 - LimitPrice},
     side : Sides]

\* UpdatePosition(f) on a RiskManager
ApplyFill(rm, f) == update_position(rm, f.symbol, f.amount, f.price, f.side)

\* C35 as stated: two fills applied in either order leave the same positions,
\* the same current_capital and the same peak_capital
C35_FillsCommute ==
    \A f1, f2 \in Fills :
        ApplyFill(ApplyFill(risk_manager, f1), f2) = ApplyFill(ApplyFill(risk_manager, f2), f1)

\* C35: two fills applied in either order leave the same positions and the
\* same current_capital
C35_PositionsAndCapitalCommute ==
    \A f1, f2 \in Fills :
        LET one == ApplyFill(ApplyFill(risk_manager, f1), f2)
            other == ApplyFill(ApplyFill(risk_manager, f2), f1)
        IN /\ one.positions = other.positions
           /\ one.current_capital = other.current_capital

\* after fills were applied, a sell and a buy whose order decides the peak:
\* the sell first raises peak_capital, the buy first does not
C35_PeakDependsOnOrder ==
    /\ direct_updates > 0
    /\ \E f1, f2 \in Fills :
          LET one == ApplyFill(ApplyFill(risk_manager, f1), f2)
              other == ApplyFill(ApplyFill(risk_manager, f2), f1)
          IN /\ f1.side = "sell" /\ f2.side = "buy"
             /\ one.positions = other.positions
             /\ one.current_capital = other.current_capital
             /\ one.peak_capital > other.peak_capital

(* ------------------- OrderExecutor: one order per call -------------------- *)
\* C36: a PlaceOrder call whose first create request the venue accepted sends
\* no second create request and registers no second order: no step of a call
\* still in progress after an accepted first request sends a create request or
\* adds an order to the table or the history
C36_OneOrderPerAcceptedCall ==
    [][(call.pc = "place_order" /\ call.create_failures = 0)
          => /\ ~CreateRequested
             /\ Len(order_info') = Len(order_info)
             /\ Len(order_history') = Len(order_history)]_vars

(* --------------------- exposure through the executor ---------------------- *)
\* C37: while every fill reaches the RiskManager through the executor, the
\* position of every symbol stays within max_position_size
C37_PositionWithinLimit ==
    direct_updates = 0 =>
        \A symbol \in Symbols : Abs(risk_manager.positions[symbol]) <= max_position_size

\* the orders the venues hold as cancelled
CancelledAtVenue == {id \in 1..Len(venue_orders) : venue_orders[id].status = "canceled"}

\* C38: orders_cancelled never exceeds the number of distinct orders that were
\* placed and then cancelled
C38_CancelledCountedOnce ==
    execution_stats.orders_cancelled <= Cardinality(CancelledAtVenue)

(* ---------------- RiskManager.update_position: failure -------------------- *)
\* C39: an UpdatePosition call that fails leaves positions, current_capital and
\* peak_capital as they were; a call that does not fail applies the position
\* and the capital together
C39_UpdateIsAllOrNothing ==
    [][\A symbol \in Symbols, amount \in (0 - 1)..MaxAmount,
          price \in Prices \cup {0 - LimitPrice}, side \in Sides :
          UpdatePosition(symbol, amount, price, side) =>
             IF last_call'.result = "TypeError"
             THEN risk_manager' = risk_manager
             ELSE /\ risk_manager'.positions[symbol]
                        = NewPosition(risk_manager.positions[symbol], side, amount)
                  /\ risk_manager'.current_capital
                        = NewCapital(risk_manager.current_capital, amount, price, side)]_vars

====
